---- MODULE Spec2Model ----
(***************************************************************************)
(* State-machine model of the ADCIRC readers of xmstool_runner:            *)
(*   - Fort14Reader (src/xms/adcirc/fort14_reader.py), mesh geometry       *)
(*   - Fort13Reader (src/xms/adcirc/fort13_reader.py), nodal attributes    *)
(*   - DatasetsFromFort13Tool.run, which hands a grid's point count to a   *)
(*     Fort13Reader (src/xms/tool_runner/tools/datasets_from_fort13_tool)  *)
(*   - Fort63Reader (src/xms/adcirc/fort63_reader.py), NetCDF elevations   *)
(*   - ADCIRCSolutionReader (src/initial_adcirc_readers/                   *)
(*     solution_importer.py), ASCII and NetCDF solution files              *)
(*                                                                         *)
(* A text file is a sequence of lines and a line is the sequence of its    *)
(* whitespace separated tokens (what str.split() returns); a blank line is *)
(* << >>.  Tokens are strings; int() and float() are modelled as parsers   *)
(* over a finite set of decimal literals and raise ValueError elsewhere.   *)
(* Python containers keep their semantics: lists are 0-based with negative *)
(* indices wrapping, dicts keep insertion order and overwrite in place.    *)
(* A raised exception is recorded in err14 / err13 / err63 and the         *)
(* reader's position becomes "raised"; an exception an                     *)
(* ADCIRCSolutionReader method catches is recorded in errS.                *)
(***************************************************************************)
EXTENDS Integers, Sequences, FiniteSets, TLC

(* ------------------------------ bounds -------------------------------- *)
MaxNodes == 2      \* node lines in a generated fort.14 / nodes of a fort.13
MaxCells == 1      \* cell lines in a generated fort.14
MaxAtts == 2       \* attributes in a generated fort.13
MaxExc == 2        \* exception records of one attribute value block
MaxBlank == 1      \* blank lines inserted before a value block
MaxSteps == 2      \* timesteps of a generated solution file
MaxBatch == 2      \* files handed to one ADCIRCSolutionReader.read

VARIABLES
  mode,        \* which program runs: "f14", "f13", "f13again", "tool", "f63", "sol", "batch",
               \* "f14twice", "f13twice", "cov" or "history"
  file14,      \* the fort.14 on disk: [exists, lines]
  f14,         \* the Fort14Reader object's fields
  cell_stream, \* _read_mesh's local cell_stream while it is being built
  pc14,        \* position of Fort14Reader.read
  err14,       \* "" or the exception read() raised
  ret14,       \* << >> or <<[co_grid, wkt]>>: what read() returned
  file13,      \* the fort.13 on disk: [exists, lines]
  f13,         \* the Fort13Reader object's fields
  fs,          \* the file handle of Fort13Reader.read: [open, pos, opened]
  att_i,       \* loop index of the attribute loops of Fort13Reader
  att_name_line, \* _read_att_values' local att_name_line
  log13,       \* warnings the Fort13Reader logged
  pc13,        \* position of Fort13Reader.read
  err13,       \* "" or the exception read() raised
  prev13,      \* << >> or <<what an earlier Fort13Reader left behind>>
  file63,      \* the fort.63.nc on disk: [time, zeta]
  f63,         \* the Fort63Reader object's fields and read's locals
  pc63,        \* position of Fort63Reader.read
  err63,       \* "" or the exception read() raised
  fileS,       \* the solution file handed to an ADCIRCSolutionReader method
  rdr,         \* the ADCIRCSolutionReader's fields and its method's locals
  pcS,         \* position of the ADCIRCSolutionReader method
  errS,        \* "" or the exception the method caught or raised
  batch,       \* ADCIRCSolutionReader.read: the filenames and where the loop is
  pcB,         \* position of ADCIRCSolutionReader.read
  errB,        \* "" or the exception read() raised
  first_read,  \* << >> or <<what the first read() of a reader read twice gave>>
  cov,         \* _read_coverages: the reader's fields and the method's locals
  pcC,         \* position of _read_coverages
  errC,        \* "" or the exception _read_coverages raised
  hist         \* the ToolboxHistory object: [history, model]

vars14 == <<file14, f14, cell_stream, pc14, err14, ret14>>
vars13 == <<file13, f13, fs, att_i, att_name_line, log13, pc13, err13, prev13>>
vars63 == <<file63, f63, pc63, err63>>
varsS == <<fileS, rdr, pcS, errS>>
varsB == <<batch, pcB, errB>>
varsC == <<cov, pcC, errC>>
varsH == <<hist>>
vars == <<mode, file14, f14, cell_stream, pc14, err14, ret14,
          file13, f13, fs, att_i, att_name_line, log13, pc13, err13, prev13,
          file63, f63, pc63, err63, fileS, rdr, pcS, errS, batch, pcB, errB,
          first_read, cov, pcC, errC, hist>>

(* ------------------------- Python primitives -------------------------- *)
\* The decimal integer literals that occur as tokens of the generated files:
\* small counts and ids, and coordinates on both sides of the limits of the
\* extents test and of the null height of a pipe.
IntLits == (-4 .. 9) \cup {-181, -180, -91, -90, 90, 91, 180, 181} \cup {22, 24, 100}

\* int(tok) succeeds exactly on integer literals.
IsInt(tok) == \E i \in IntLits : ToString(i) = tok
IntOf(tok) == CHOOSE i \in IntLits : ToString(i) = tok

\* Decimal literals with one digit after the point.
IsDecimal(tok) == \E i \in 0..1, d \in 0..9 : tok = ToString(i) \o "." \o ToString(d)
DecimalTenths(tok) ==
  LET id == CHOOSE id \in (0..1) \X (0..9) : tok = ToString(id[1]) \o "." \o ToString(id[2])
  IN 10 * id[1] + id[2]

\* float(tok) succeeds on the integer and the decimal literals.  A float is
\* kept as the integer t of tenths it was written as and stands for the
\* double nearest to t / 10; negation and comparison of such doubles are
\* those of the integers.
IsFloat(tok) == IsInt(tok) \/ IsDecimal(tok)
FloatOf(tok) == IF IsInt(tok) THEN 10 * IntOf(tok) ELSE DecimalTenths(tok)

\* A dict is the sequence of its items [k, v] in insertion order.
DictKeys(d) == {d[i].k : i \in 1..Len(d)}
DictHas(d, key) == \E i \in 1..Len(d) : d[i].k = key
DictGet(d, key) == d[CHOOSE i \in 1..Len(d) : d[i].k = key].v
\* Variant of DictPut that puts a new key in front of the others.
DictPutFront(d, key, val) ==
  IF DictHas(d, key)
    THEN [i \in 1..Len(d) |-> IF d[i].k = key THEN [k |-> key, v |-> val] ELSE d[i]]
    ELSE <<[k |-> key, v |-> val]>> \o d

\* d[key] = val: a present key keeps its position, a new key is appended.
DictPut(d, key, val) ==
  IF DictHas(d, key)
    THEN [i \in 1..Len(d) |-> IF d[i].k = key THEN [k |-> key, v |-> val] ELSE d[i]]
    ELSE Append(d, [k |-> key, v |-> val])
DictValues(d) == [i \in 1..Len(d) |-> d[i].v]

(* ------------------- double precision arithmetic --------------------- *)
\* Significant bits of an IEEE 754 binary64, the type of Python's float.
MantissaBits == 53

\* F applied to the value of v, which is worked out once, and to the
\* sequence v with its elements worked out once.
Let(v, F(_)) == CHOOSE r \in {F(x) : x \in {v}} : TRUE
LetSeq(v, F(_)) == CHOOSE r \in {F(y) : y \in {x \o << >> : x \in {v}}} : TRUE

\* A natural number is kept as the sequence of its digits to the base
\* 2^DigitBits, most significant first.
DigitBits == 15
Base == 2^DigitBits
Zeros(n) == [i \in 1..n |-> 0]
BigOf(n) == <<n \div (Base * Base), (n \div Base) % Base, n % Base>>
Digit(x, i) == IF i < 1 \/ i > Len(x) THEN 0 ELSE x[i]
StripZeros(v) ==
  LetSeq(v, LAMBDA x :
    IF \A i \in 1..Len(x) : x[i] = 0 THEN << >>
    ELSE SubSeq(x, CHOOSE i \in 1..Len(x) : x[i] # 0 /\ \A j \in 1..(i - 1) : x[j] = 0, Len(x)))
\* The number of bits of v.
BitLen(v) ==
  LetSeq(StripZeros(v), LAMBDA y :
    IF y = << >> THEN 0
    ELSE DigitBits * (Len(y) - 1)
         + (CHOOSE k \in 1..DigitBits : 2^(k - 1) <= y[1] /\ y[1] < 2^k))

\* v * 2^by
ShiftLeft(v, by) ==
  Let(by, LAMBDA s : LetSeq(v, LAMBDA x :
    [j \in 1..(Len(x) + 1) |->
       ((Digit(x, j - 1) * 2^(s % DigitBits)) % Base)
       + (Digit(x, j) \div 2^(DigitBits - (s % DigitBits)))]
    \o Zeros(s \div DigitBits)))
\* v \div 2^by, and whether a bit that was shifted out was set.
ShiftRight(v, by) ==
  Let(by, LAMBDA s : LetSeq(v, LAMBDA x :
    LET b == s % DigitBits
        n == Len(x) - s \div DigitBits
    IN IF n <= 0 THEN [q |-> << >>, dropped |-> \E i \in 1..Len(x) : x[i] # 0]
       ELSE [q |-> [j \in 1..n |->
                      ((Digit(x, j - 1) % 2^b) * 2^(DigitBits - b)) + (x[j] \div 2^b)] \o << >>,
             dropped |-> x[n] % 2^b # 0 \/ \E i \in (n + 1)..Len(x) : x[i] # 0]))

\* The sequence v with zeros in front, n digits in all.
Padded(v, n) == LetSeq(v, LAMBDA x : Zeros(n - Len(x)) \o x)
\* x + y for two numbers of the same number of digits; c[i] is the carry
\* into digit i from the digits after it.
AddDigits(x, y) ==
  LET n == Len(x)
      c[i \in 1..(n + 1)] == IF i = n + 1 THEN 0 ELSE (x[i] + y[i] + c[i + 1]) \div Base
  IN <<c[1]>> \o [i \in 1..n |-> (x[i] + y[i] + c[i + 1]) % Base]
\* x - y for x >= y of the same number of digits; bw[i] is the borrow digit i
\* is asked for.
SubDigits(x, y) ==
  LET n == Len(x)
      bw[i \in 1..(n + 1)] ==
        IF i = n + 1 THEN 0 ELSE IF x[i] - y[i] - bw[i + 1] < 0 THEN 1 ELSE 0
  IN [i \in 1..n |-> (x[i] - y[i] - bw[i + 1]) % Base] \o << >>
\* x > y for two different numbers of the same number of digits.
BigGreater(x, y) ==
  LET i == CHOOSE i \in 1..Len(x) : x[i] # y[i] /\ \A j \in 1..(i - 1) : x[j] = y[j]
  IN x[i] > y[i]
\* v + w
BigAdd(v, w) ==
  LetSeq(v, LAMBDA x : LetSeq(w, LAMBDA y :
    LetSeq(Padded(x, IF Len(x) > Len(y) THEN Len(x) ELSE Len(y)), LAMBDA px :
      LetSeq(Padded(y, Len(px)), LAMBDA py : AddDigits(px, py)))))
\* Long division of v by a small d > 0: the quotient q and the remainder r;
\* rem[i] is the remainder the first i digits leave.
BigDiv(v, d) ==
  LetSeq(v, LAMBDA x :
    LET n == Len(x)
        rem[i \in 0..n] == IF i = 0 THEN 0 ELSE (rem[i - 1] * Base + x[i]) % d
    IN [q |-> [i \in 1..n |-> (rem[i - 1] * Base + x[i]) \div d] \o << >>, r |-> rem[n]])

\* A double is [s, m, e]: the MantissaBits bits of m times 2^e, negated when
\* s = 1; zero is kept as +0.0.
Mantissa(v) ==
  LetSeq(StripZeros(v), LAMBDA y :
    Zeros((MantissaBits + DigitBits - 1) \div DigitBits - Len(y)) \o y)
DblZero == [s |-> 0, m |-> Mantissa(<< >>), e |-> 0]
Signed(s, v) == Let(v, LAMBDA d : [s |-> s, m |-> d.m, e |-> d.e])

\* The magnitude [m, e] nearest to v * 2^e (plus something below the last bit
\* when sticky), ties to even; v # 0.
RoundToDbl(v, e, sticky) ==
  LetSeq(v, LAMBDA x : Let(BitLen(x) - MantissaBits, LAMBDA s :
    IF s <= 0 THEN [m |-> Mantissa(ShiftLeft(x, -s)), e |-> e + s]
    ELSE Let(ShiftRight(x, s - 1), LAMBDA half :
      LetSeq(ShiftRight(half.q, 1).q, LAMBDA keep :
        LET guard == half.q[Len(half.q)] % 2
            rest == sticky \/ half.dropped
            up == guard = 1 /\ (rest \/ keep[Len(keep)] % 2 = 1)
        IN LetSeq(IF up THEN BigAdd(keep, <<1>>) ELSE keep, LAMBDA m1 :
             IF BitLen(m1) > MantissaBits
               THEN [m |-> Mantissa(ShiftRight(m1, 1).q), e |-> e + s + 1]
               ELSE [m |-> Mantissa(m1), e |-> e + s])))))

\* The magnitude nearest to v * 2^e / d (v # 0, d > 0 small): the division
\* is carried on below the point far enough for the quotient to fill a
\* mantissa and one bit more.
DblDiv(v, e, d) ==
  Let(MantissaBits + 1 + BitLen(BigOf(d)), LAMBDA below :
    Let(BigDiv(ShiftLeft(v, below), d), LAMBDA x :
      RoundToDbl(x.q, e - below, x.r # 0)))

\* The double a float of t tenths stands for.
ToDbl(t) ==
  IF t = 0 THEN DblZero
  ELSE Signed(IF t < 0 THEN 1 ELSE 0, DblDiv(BigOf(IF t < 0 THEN 0 - t ELSE t), 0, 10))
\* a + b in double precision: the exact sum, rounded.
DblAdd(u, w) ==
  Let(u, LAMBDA a : Let(w, LAMBDA b :
    IF a = DblZero THEN b
    ELSE IF b = DblZero THEN a
    ELSE Let(IF a.e < b.e THEN a.e ELSE b.e, LAMBDA e :
      LetSeq(ShiftLeft(a.m, a.e - e), LAMBDA x : LetSeq(ShiftLeft(b.m, b.e - e), LAMBDA y :
        LetSeq(Padded(x, IF Len(x) > Len(y) THEN Len(x) ELSE Len(y)), LAMBDA px :
          LetSeq(Padded(y, Len(px)), LAMBDA py :
            IF a.s = b.s THEN Signed(a.s, RoundToDbl(AddDigits(px, py), e, FALSE))
            ELSE IF px = py THEN DblZero
            ELSE IF BigGreater(px, py)
              THEN Signed(a.s, RoundToDbl(SubDigits(px, py), e, FALSE))
              ELSE Signed(b.s, RoundToDbl(SubDigits(py, px), e, FALSE)))))))))

SeqMin(s, j) == CHOOSE m \in {s[i][j] : i \in 1..Len(s)} : \A i \in 1..Len(s) : m <= s[i][j]
SeqMax(s, j) == CHOOSE m \in {s[i][j] : i \in 1..Len(s)} : \A i \in 1..Len(s) : m >= s[i][j]

(* ============================ Fort14Reader ============================= *)
GEOGRAPHIC_WKT == "GEOGCS[NAD83]"
LOCAL_METERS_WKT == "LOCAL_CS[None]"
\* XmUGrid.cell_type_enum.TRIANGLE
TRIANGLE == 5

\* Fort14Reader.__init__; first_line is no field of the object: it keeps the
\* value current_line had when _parse_lines() began, from which the loops of
\* _read_mesh() count.
Fort14Init ==
  [lines |-> << >>, mesh_name |-> << >>, pt_map |-> << >>,
   assume_geo_coords |-> FALSE, num_nodes |-> 0, num_cells |-> 0,
   current_line |-> 0, wkt |-> "", co_grid |-> << >>, first_line |-> 0]

\* self.lines[self.current_line] exists
HasLine14 == f14.current_line < Len(f14.lines)
CurLine14 == f14.lines[f14.current_line + 1]

Raise14(kind) ==
  /\ pc14' = "raised"
  /\ err14' = kind

\* Where _read_mesh goes next: the node loop, the cell comprehension or the build.
AfterNodes(done, r) ==
  IF done < r.num_nodes THEN "nodes"
  ELSE IF r.num_cells > 0 THEN "cells" ELSE "build"
AfterCells(stream, r) ==
  IF Len(stream) < 5 * r.num_cells THEN "cells" ELSE "build"

\* read(): the existence / size pre-check.
F14Check ==
  /\ pc14 = "start"
  /\ IF ~file14.exists \/ Len(file14.lines) = 0
       THEN Raise14("FileNotFound")
       ELSE pc14' = "parse" /\ err14' = err14
  /\ UNCHANGED <<mode, varsC, varsH, varsB, first_read, vars63, varsS, file14, f14, cell_stream, ret14, vars13>>

\* _parse_lines(): readlines() and the grid name, the line at current_line.
F14ParseLines ==
  /\ pc14 = "parse"
  /\ IF f14.current_line >= Len(file14.lines)
       THEN /\ f14' = [f14 EXCEPT !.lines = file14.lines, !.first_line = f14.current_line]
            /\ Raise14("IndexError")
       ELSE /\ f14' = [f14 EXCEPT !.lines = file14.lines,
                                  !.mesh_name = file14.lines[f14.current_line + 1],
                                  !.current_line = @ + 1,
                                  !.first_line = f14.current_line]
            /\ pc14' = "header"
            /\ err14' = err14
  /\ UNCHANGED <<mode, varsC, varsH, varsB, first_read, vars63, varsS, file14, cell_stream, ret14, vars13>>

\* _read_mesh(): the header line "num_cells num_nodes".
F14ReadHeader ==
  /\ pc14 = "header"
  /\ IF ~HasLine14
       THEN Raise14("IndexError") /\ f14' = f14
       ELSE LET t == CurLine14
                r1 == [f14 EXCEPT !.current_line = @ + 1]
            IN IF Len(t) < 1 THEN Raise14("IndexError") /\ f14' = r1
               ELSE IF ~IsInt(t[1]) THEN Raise14("ValueError") /\ f14' = r1
               ELSE LET r2 == [r1 EXCEPT !.num_cells = IntOf(t[1])]
                    IN IF Len(t) < 2 THEN Raise14("IndexError") /\ f14' = r2
                       ELSE IF ~IsInt(t[2]) THEN Raise14("ValueError") /\ f14' = r2
                       ELSE LET r3 == [r2 EXCEPT !.num_nodes = IntOf(t[2])]
                            IN /\ f14' = r3
                               /\ pc14' = AfterNodes(0, r3)
                               /\ err14' = err14
  /\ UNCHANGED <<mode, varsC, varsH, varsB, first_read, vars63, varsS, file14, cell_stream, ret14, vars13>>

\* The exception the node line `t` makes the loop body raise, "" when none:
\* the value tuple (three floats) is evaluated before the key int(t[0]).
NodeLineError(t) ==
  IF Len(t) < 2 THEN "IndexError"
  ELSE IF ~IsFloat(t[2]) THEN "ValueError"
  ELSE IF Len(t) < 3 THEN "IndexError"
  ELSE IF ~IsFloat(t[3]) THEN "ValueError"
  ELSE IF Len(t) < 4 THEN "IndexError"
  ELSE IF ~IsFloat(t[4]) THEN "ValueError"
  ELSE IF ~IsInt(t[1]) THEN "ValueError"
  ELSE ""

\* point_index = len(self.pt_map)
PointIndex(pt_map) == Len(pt_map)

\* Variant of PtMapPut that takes the point id for the array position (id - 1),
\* as a reader that assumes consecutive ids would.
PtMapPutById(pt_map, t) ==
  DictPut(pt_map, IntOf(t[1]),
          [pt |-> <<FloatOf(t[2]), FloatOf(t[3]), FloatOf(t[4]) * (-1)>>,
           idx |-> IntOf(t[1]) - 1])

\* self.pt_map[int(t[0])] = ((x, y, -z), point_index)
PtMapPut(pt_map, t) ==
  DictPut(pt_map, IntOf(t[1]),
          [pt |-> <<FloatOf(t[2]), FloatOf(t[3]), FloatOf(t[4]) * (-1)>>,
           idx |-> PointIndex(pt_map)])

\* Iterations of the node loop that have run: one line each after the header.
NodesDone == f14.current_line - f14.first_line - 2

\* _read_mesh(): one iteration of the node loop.
F14ReadNode ==
  /\ pc14 = "nodes"
  /\ IF ~HasLine14
       THEN Raise14("IndexError") /\ f14' = f14
       ELSE LET t == CurLine14
                r1 == [f14 EXCEPT !.current_line = @ + 1]
            IN IF NodeLineError(t) # ""
                 THEN Raise14(NodeLineError(t)) /\ f14' = r1
                 ELSE /\ f14' = [r1 EXCEPT !.pt_map = PtMapPut(f14.pt_map, t)]
                      /\ pc14' = AfterNodes(NodesDone + 1, r1)
                      /\ err14' = err14
  /\ UNCHANGED <<mode, varsC, varsH, varsB, first_read, vars63, varsS, file14, cell_stream, ret14, vars13>>

\* The exception _get_cell_stream_vals raises on cell line `t`, "" when none.
PtRefError(t, j, pt_map) ==
  IF Len(t) < j THEN "IndexError"
  ELSE IF ~IsInt(t[j]) THEN "ValueError"
  ELSE IF ~DictHas(pt_map, IntOf(t[j])) THEN "KeyError"
  ELSE ""
CellLineError(t, pt_map) ==
  IF PtRefError(t, 3, pt_map) # "" THEN PtRefError(t, 3, pt_map)
  ELSE IF PtRefError(t, 4, pt_map) # "" THEN PtRefError(t, 4, pt_map)
  ELSE PtRefError(t, 5, pt_map)

\* self.pt_map[int(t[j])][1]
PtIndexOf(pt_map, tok) == DictGet(pt_map, IntOf(tok)).idx

\* _get_cell_stream_vals(): [TRIANGLE, 3, i1, i2, i3]
CellStreamVals(t, pt_map) ==
  <<TRIANGLE, 3, PtIndexOf(pt_map, t[3]), PtIndexOf(pt_map, t[4]), PtIndexOf(pt_map, t[5])>>

\* Variant of F14ReadCell that skips a cell naming an unknown point id
\* instead of raising KeyError.
F14ReadCellSkipUnknown ==
  /\ pc14 = "cells"
  /\ IF ~HasLine14
       THEN Raise14("IndexError") /\ UNCHANGED <<f14, cell_stream>>
       ELSE LET t == CurLine14
                r1 == [f14 EXCEPT !.current_line = @ + 1]
                e == CellLineError(t, f14.pt_map)
            IN /\ f14' = r1
               /\ IF e \notin {"", "KeyError"}
                    THEN Raise14(e) /\ cell_stream' = cell_stream
                    ELSE LET s == IF e = "" THEN cell_stream \o CellStreamVals(t, f14.pt_map)
                                  ELSE cell_stream
                         IN /\ cell_stream' = s
                            /\ pc14' = IF f14.current_line + 1 < f14.first_line + 2 + f14.num_nodes + f14.num_cells
                                         THEN "cells" ELSE "build"
                            /\ err14' = err14
  /\ UNCHANGED <<mode, varsC, varsH, varsB, first_read, vars63, varsS, file14, ret14, vars13>>

\* _read_mesh(): one iteration of the cell_stream comprehension.
F14ReadCell ==
  /\ pc14 = "cells"
  /\ IF ~HasLine14
       THEN Raise14("IndexError") /\ UNCHANGED <<f14, cell_stream>>
       ELSE LET t == CurLine14
                r1 == [f14 EXCEPT !.current_line = @ + 1]
            IN /\ f14' = r1
               /\ IF CellLineError(t, f14.pt_map) # ""
                    THEN Raise14(CellLineError(t, f14.pt_map)) /\ cell_stream' = cell_stream
                    ELSE LET s == cell_stream \o CellStreamVals(t, f14.pt_map)
                         IN /\ cell_stream' = s
                            /\ pc14' = AfterCells(s, r1)
                            /\ err14' = err14
  /\ UNCHANGED <<mode, varsC, varsH, varsB, first_read, vars63, varsS, file14, ret14, vars13>>

\* points = [point_data[0] for point_data in self.pt_map.values()]
PointsOf(pt_map) == [i \in 1..Len(pt_map) |-> pt_map[i].v.pt]

\* XmUGrid(points, cell_stream) and UGridBuilder.build_grid(): the library
\* keeps the two lists as given.
BuildGrid(points, stream) == [points |-> points, cell_stream |-> stream]

\* Variant of ExtentsAreGeographic whose limits are exclusive.
ExtentsStrictlyInside(points) ==
  /\ SeqMin(points, 1) > FloatOf("-180")
  /\ SeqMin(points, 2) > FloatOf("-90")
  /\ SeqMax(points, 1) < FloatOf("180")
  /\ SeqMax(points, 2) < FloatOf("90")

\* The extents test of _read_mesh (lines 82-85).
ExtentsAreGeographic(points) ==
  /\ SeqMin(points, 1) >= FloatOf("-180")
  /\ SeqMin(points, 2) >= FloatOf("-90")
  /\ SeqMax(points, 1) <= FloatOf("180")
  /\ SeqMax(points, 2) <= FloatOf("90")

\* _read_mesh(): build the grid and test its extents.  The extents of a grid
\* without points are the library's and either outcome is allowed.
F14Build ==
  /\ pc14 = "build"
  /\ LET points == PointsOf(f14.pt_map)
         grid == BuildGrid(points, cell_stream)
     IN \E geo \in BOOLEAN :
          /\ IF Len(points) = 0 THEN TRUE ELSE geo = ExtentsAreGeographic(points)
          /\ f14' = [f14 EXCEPT !.co_grid = <<grid>>,
                                !.assume_geo_coords = (geo \/ @)]
  /\ pc14' = "wkt"
  /\ UNCHANGED <<mode, varsC, varsH, varsB, first_read, vars63, varsS, file14, cell_stream, err14, ret14, vars13>>

\* _assign_wkt()
AssignWkt(r) == IF r.assume_geo_coords THEN GEOGRAPHIC_WKT ELSE LOCAL_METERS_WKT

\* read(): _assign_wkt() and the return of (co_grid, wkt).
F14Return ==
  /\ pc14 = "wkt"
  /\ f14' = [f14 EXCEPT !.wkt = AssignWkt(f14)]
  /\ ret14' = <<[co_grid |-> f14.co_grid, wkt |-> AssignWkt(f14)]>>
  /\ pc14' = "done"
  /\ UNCHANGED <<mode, varsC, varsH, varsB, first_read, vars63, varsS, file14, cell_stream, err14, vars13>>

Next14 ==
  \/ F14Check
  \/ F14ParseLines
  \/ F14ReadHeader
  \/ F14ReadNode
  \/ F14ReadCell
  \/ F14Build
  \/ F14Return

(* ============================ Fort13Reader ============================= *)
GEOID == "sea_surface_height_above_geoid"

\* get_dset_display_names(a_att)
DisplayNames(a_att) ==
  CASE a_att = "surface_submergence_state" -> <<"StartDry">>
    [] a_att = "surface_directional_effective_roughness_length" ->
         <<"Z0Land000", "Z0Land030", "Z0Land060", "Z0Land090", "Z0Land120", "Z0Land150",
           "Z0Land180", "Z0Land210", "Z0Land240", "Z0Land270", "Z0Land300", "Z0Land330">>
    [] a_att = "surface_canopy_coefficient" -> <<"VCanopy">>
    [] a_att = "bottom_roughness_length" -> <<"Z0b_var">>
    [] a_att = "wave_refraction_in_swan" -> <<"SwanWaveRefrac">>
    [] a_att = "average_horizontal_eddy_viscosity_in_sea_water_wrt_depth" -> <<"EVC">>
    [] a_att = "primitive_weighting_in_continuity_equation" -> <<"TAU0">>
    [] a_att = "quadratic_friction_coefficient_at_sea_floor" -> <<"Quadratic friction">>
    [] a_att = "bridge_pilings_friction_paramenters" -> <<"BK", "BAlpha", "BDelX", "POAN">>
    [] a_att = "mannings_n_at_sea_floor" -> <<"ManningsN">>
    [] a_att = "chezy_friction_coefficient_at_sea_floor" -> <<"ChezyFric">>
    [] a_att = "elemental_slope_limiter" -> <<"ElSloLim">>
    [] a_att = "advection_state" -> <<"AdvState">>
    [] a_att = "initial_river_elevation" -> <<"IniRivEle">>
    [] OTHER -> << >>

\* Variant of SynthesizedNames that numbers a single dataset as well.
SynthesizedNamesAllNumbered(att_name, num_att_dsets) ==
  [i \in 1..num_att_dsets |-> att_name \o " (" \o ToString(i) \o ")"]

\* The names given to the datasets of an attribute the table does not know
\* (lines 167-169).
SynthesizedNames(att_name, num_att_dsets) ==
  [i \in 1..num_att_dsets |->
     IF num_att_dsets # 1 THEN att_name \o " (" \o ToString(i) \o ")" ELSE att_name]

\* Fort13Reader.__init__
Fort13Init(geom_num_nodes) ==
  [geom_num_nodes |-> geom_num_nodes, num_nodes |-> 0, num_atts |-> 0,
   att_defaults |-> << >>, att_dsets |-> << >>, datasets |-> << >>,
   built_data |-> << >>, nodal_atts |-> << >>,
   formulation_atts |-> << >>, general_atts |-> << >>]

\* No file object yet.
NoHandle == [open |-> FALSE, pos |-> 0, opened |-> FALSE]

\* fs.readline().split() at line position p (0-based): '' at end of file.
Line13(p) == IF p < Len(file13.lines) THEN file13.lines[p + 1] ELSE << >>
Adv(p) == IF p < Len(file13.lines) THEN p + 1 ELSE p

\* An exception leaves the with block: the handle is closed.
Raise13(kind, p) ==
  /\ pc13' = "raised"
  /\ err13' = kind
  /\ fs' = [open |-> FALSE, pos |-> p, opened |-> TRUE]

\* Variant of F13Check that tests os.path.isfile only.
F13CheckExistsOnly ==
  /\ pc13 = "start"
  /\ IF ~file13.exists
       THEN pc13' = "raised" /\ err13' = "FileNotFound"
       ELSE pc13' = "header" /\ err13' = err13
  /\ UNCHANGED <<mode, varsC, varsH, varsB, first_read, vars63, varsS, prev13, vars14, file13, f13, fs, att_i, att_name_line, log13>>

\* read(): the existence / size pre-check.
F13Check ==
  /\ pc13 = "start"
  /\ IF ~file13.exists \/ Len(file13.lines) = 0
       THEN pc13' = "raised" /\ err13' = "FileNotFound"
       ELSE pc13' = "header" /\ err13' = err13
  /\ UNCHANGED <<mode, varsC, varsH, varsB, first_read, vars63, varsS, prev13, vars14, file13, f13, fs, att_i, att_name_line, log13>>

\* Variant of HeaderError that compares the node counts first.
HeaderErrorMismatchFirst(num_nodes, geom_num_nodes, num_atts) ==
  IF num_nodes # geom_num_nodes THEN "NodeCountMismatch"
  ELSE IF num_nodes <= 0 THEN "InvalidFile"
  ELSE IF num_atts = 0 THEN "NoAttributes"
  ELSE ""

\* The header validation of read() (lines 203-208): the error raised, "" when none.
HeaderError(num_nodes, geom_num_nodes, num_atts) ==
  IF num_nodes <= 0 THEN "InvalidFile"
  ELSE IF num_nodes # geom_num_nodes THEN "NodeCountMismatch"
  ELSE IF num_atts = 0 THEN "NoAttributes"
  ELSE ""

\* Where read() goes after `done` iterations of the first / second attribute loop.
AfterInfo(done, r) ==
  IF done < r.num_atts THEN "info"
  ELSE IF r.num_atts > 0 THEN "val_name" ELSE "finish"
AfterValues(done, r) == IF done < r.num_atts THEN "val_name" ELSE "finish"

\* read(): open the file, read the three header lines and validate them.
F13Header ==
  /\ pc13 = "header"
  /\ LET p1 == Adv(0)
         t2 == Line13(p1)
         p2 == Adv(p1)
         t3 == Line13(p2)
         p3 == Adv(p2)
     IN IF Len(t2) < 1 THEN Raise13("IndexError", p2) /\ f13' = f13
        ELSE IF ~IsInt(t2[1]) THEN Raise13("ValueError", p2) /\ f13' = f13
        ELSE LET r1 == [f13 EXCEPT !.num_nodes = IntOf(t2[1])]
             IN IF Len(t3) < 1 THEN Raise13("IndexError", p3) /\ f13' = r1
                ELSE IF ~IsInt(t3[1]) THEN Raise13("ValueError", p3) /\ f13' = r1
                ELSE LET r2 == [r1 EXCEPT !.num_atts = IntOf(t3[1])]
                         e == HeaderError(r2.num_nodes, r2.geom_num_nodes, r2.num_atts)
                     IN /\ f13' = r2
                        /\ IF e # ""
                             THEN Raise13(e, p3)
                             ELSE /\ pc13' = AfterInfo(0, r2)
                                  /\ err13' = err13
                                  /\ fs' = [open |-> TRUE, pos |-> p3, opened |-> TRUE]
  /\ att_i' = 0
  /\ UNCHANGED <<mode, varsC, varsH, varsB, first_read, vars63, varsS, prev13, vars14, file13, att_name_line, log13>>

\* [float(val) for val in line.replace(",", " ").split()]
AllFloats(t) == \A j \in 1..Len(t) : IsFloat(t[j])
Floats(t) == [j \in 1..Len(t) |-> FloatOf(t[j])]

\* _read_att_info(): one iteration, four lines of one attribute.
F13ReadAttInfo ==
  /\ pc13 = "info"
  /\ LET t1 == Line13(fs.pos)
         p1 == Adv(fs.pos)
         p4 == Adv(Adv(Adv(p1)))
         t4 == Line13(Adv(Adv(p1)))
     IN IF Len(t1) < 1 THEN Raise13("IndexError", p1) /\ UNCHANGED <<f13, att_i>>
        ELSE IF ~AllFloats(t4) THEN Raise13("ValueError", p4) /\ UNCHANGED <<f13, att_i>>
        ELSE /\ f13' = [f13 EXCEPT !.att_defaults = DictPut(@, t1[1], Floats(t4))]
             /\ fs' = [fs EXCEPT !.pos = p4]
             /\ pc13' = AfterInfo(att_i + 1, f13)
             /\ att_i' = IF att_i + 1 < f13.num_atts THEN att_i + 1 ELSE 0
             /\ err13' = err13
  /\ UNCHANGED <<mode, varsC, varsH, varsB, first_read, vars63, varsS, prev13, vars14, file13, att_name_line, log13>>

\* _read_att_values(): att_name_line = fs.readline().split() (lines 134, 136).
\* At end of file readline() returns '' and the position stays.
F13ReadAttName ==
  /\ pc13 = "val_name"
  /\ att_name_line' = Line13(fs.pos)
  /\ fs' = [fs EXCEPT !.pos = Adv(fs.pos)]
  /\ pc13' = "val_test"
  /\ UNCHANGED <<mode, varsC, varsH, varsB, first_read, vars63, varsS, prev13, vars14, file13, f13, att_i, log13, err13>>

\* Variant of F13TestAttName without the loop over empty lines: an empty name
\* line fails at att_name_line[0].
F13TestAttNameNoSkip ==
  /\ pc13 = "val_test"
  /\ IF Len(att_name_line) = 0
       THEN Raise13("IndexError", fs.pos)
       ELSE pc13' = "val_body" /\ UNCHANGED <<fs, err13>>
  /\ UNCHANGED <<mode, varsC, varsH, varsB, first_read, vars63, varsS, prev13, vars14, file13, f13, att_i, att_name_line, log13>>

\* _read_att_values(): the test of `while not att_name_line` (line 135).
F13TestAttName ==
  /\ pc13 = "val_test"
  /\ pc13' = IF Len(att_name_line) = 0 THEN "val_name" ELSE "val_body"
  /\ UNCHANGED <<mode, varsC, varsH, varsB, first_read, vars63, varsS, prev13, vars14, file13, f13, fs, att_i, att_name_line, log13, err13>>

\* node_idx = int(line_data[0]) - 1
NodeIdx(t) == IntOf(t[1]) - 1

\* A Python list of length n accepts index idx (negative indices wrap).
ListIndexOk(idx, n) == idx >= 0 - n /\ idx <= n - 1
\* The 1-based position Python's list index idx denotes.
ListPos(idx, n) == IF idx >= 0 THEN idx + 1 ELSE n + idx + 1

\* The exception one exception record raises, "" when none.
RecordError(t, ncomp, n) ==
  IF Len(t) < 1 THEN "IndexError"
  ELSE IF ~IsInt(t[1]) THEN "ValueError"
  ELSE IF ncomp = 0 THEN ""
  ELSE IF Len(t) < 2 THEN "IndexError"
  ELSE IF ~IsFloat(t[2]) THEN "ValueError"
  ELSE IF ~ListIndexOk(NodeIdx(t), n) THEN "IndexError"
  ELSE LET bad == {k \in 2..ncomp : Len(t) < k + 1 \/ ~IsFloat(t[k + 1])}
       IN IF bad = {} THEN ""
          ELSE LET k == CHOOSE x \in bad : \A y \in bad : x <= y
               IN IF Len(t) < k + 1 THEN "IndexError" ELSE "ValueError"

\* dset_vals[k][node_idx] = float(line_data[k + 1]) for every component k
WriteRecord(vals, t, n) ==
  [k \in 1..Len(vals) |-> [vals[k] EXCEPT ![ListPos(NodeIdx(t), n)] = FloatOf(t[k + 1])]]

\* The exception loop (lines 147-153) over `left` records from line position p.
RECURSIVE ApplyExceptions(_, _, _, _)
ApplyExceptions(vals, p, left, n) ==
  IF left <= 0 THEN [err |-> "", vals |-> vals, pos |-> p]
  ELSE LET t == Line13(p)
           e == RecordError(t, Len(vals), n)
       IN IF e # "" THEN [err |-> e, vals |-> vals, pos |-> Adv(p)]
          ELSE ApplyExceptions(WriteRecord(vals, t, n), Adv(p), left - 1, n)

\* dset_vals initialised with the defaults (lines 145-146).
DefaultVals(defs, n) == [k \in 1..Len(defs) |-> [i \in 1..n |-> defs[k]]]

\* Variant of Mean that takes the value of the first node.
FirstValue(s) == ToDbl(s[1])

\* The sum numpy's add.reduce forms of fewer than eight doubles: one after
\* the other, each addition rounded.
RECURSIVE SeqSum(_)
SeqSum(s) ==
  IF Len(s) = 0 THEN DblZero
  ELSE IF Len(s) = 1 THEN ToDbl(s[1])
  ELSE DblAdd(SeqSum(SubSeq(s, 1, Len(s) - 1)), ToDbl(s[Len(s)]))
\* float(np.array(vals).mean()): the rounded sum divided by the count; the
\* mean of no value at all is nan.
Mean(v) ==
  LetSeq(v, LAMBDA s :
    IF Len(s) = 0 THEN "nan"
    ELSE Let(SeqSum(s), LAMBDA sum :
      IF sum = DblZero THEN DblZero
      ELSE Signed(sum.s, DblDiv(sum.m, sum.e, Len(s)))))

\* Datasets created so far: the next uuid4 is one not handed out before.
RECURSIVE CountWriters(_)
CountWriters(att_dsets) ==
  IF Len(att_dsets) = 0 THEN 0 ELSE Len(att_dsets[1].v) + CountWriters(Tail(att_dsets))

\* DatasetWriter(name, dset_uuid, geom_uuid, location) with one timestep at 0.0.
DatasetWriter(name, uid, vals) ==
  [name |-> name, dset_uuid |-> uid, geom_uuid |-> "geom", location |-> "points",
   times |-> <<0>>, values |-> <<vals>>]

\* The dataset loop (lines 170-185) for components 1..upto of one attribute.
RECURSIVE AddDatasets(_, _, _, _, _)
AddDatasets(r, att_name, names, vals, upto) ==
  IF upto = 0 THEN r
  ELSE LET q == AddDatasets(r, att_name, names, vals, upto - 1)
           w == DatasetWriter(names[upto], CountWriters(q.att_dsets) + 1, vals[upto])
           old == IF DictHas(q.att_dsets, att_name) THEN DictGet(q.att_dsets, att_name) ELSE << >>
       IN [q EXCEPT !.datasets = DictPut(@, names[upto], w),
                    !.att_dsets = DictPut(@, att_name, Append(old, w))]

\* Lines 155-161: the geoid offset becomes a scalar of nodal_atts.
SetGeoid(r, vals) ==
  [r EXCEPT !.nodal_atts =
     DictPut(DictPut(@, "sea_surface_height_above_geoid_on", 1),
             GEOID, Mean(vals[1]))]

\* _read_att_values(): the body of one iteration after the name line: the
\* exception count, the exception records and the datasets.
F13ReadAttValues ==
  /\ pc13 = "val_body"
  /\ LET att_name == att_name_line[1]
         t == Line13(fs.pos)
         p1 == Adv(fs.pos)
     IN IF ~DictHas(f13.att_defaults, att_name)
          THEN Raise13("KeyError", fs.pos) /\ UNCHANGED <<f13, att_i, log13>>
        ELSE IF Len(t) < 1 THEN Raise13("IndexError", p1) /\ UNCHANGED <<f13, att_i, log13>>
        ELSE IF ~IsInt(t[1]) THEN Raise13("ValueError", p1) /\ UNCHANGED <<f13, att_i, log13>>
        ELSE LET defs == DictGet(f13.att_defaults, att_name)
                 num_att_dsets == Len(defs)
                 res == ApplyExceptions(DefaultVals(defs, f13.num_nodes), p1, IntOf(t[1]),
                                        f13.num_nodes)
                 known == DisplayNames(att_name)
                 names == IF Len(known) = 0
                            THEN SynthesizedNames(att_name, num_att_dsets) ELSE known
                 made == IF num_att_dsets <= Len(names) THEN num_att_dsets ELSE Len(names)
             IN IF res.err # ""
                  THEN Raise13(res.err, res.pos) /\ UNCHANGED <<f13, att_i, log13>>
                ELSE IF att_name = GEOID /\ num_att_dsets = 0
                  THEN Raise13("IndexError", res.pos) /\ UNCHANGED <<f13, att_i, log13>>
                ELSE IF att_name = GEOID
                  THEN /\ f13' = SetGeoid(f13, res.vals)
                       /\ fs' = [fs EXCEPT !.pos = res.pos]
                       /\ pc13' = AfterValues(att_i + 1, f13)
                       /\ att_i' = att_i + 1
                       /\ UNCHANGED <<err13, log13>>
                ELSE /\ f13' = AddDatasets(f13, att_name, names, res.vals, made)
                     /\ log13' = IF Len(known) = 0 THEN Append(log13, att_name) ELSE log13
                     /\ IF made < num_att_dsets
                          THEN Raise13("IndexError", res.pos) /\ att_i' = att_i
                          ELSE /\ fs' = [fs EXCEPT !.pos = res.pos]
                               /\ pc13' = AfterValues(att_i + 1, f13)
                               /\ att_i' = att_i + 1
                               /\ err13' = err13
  /\ UNCHANGED <<mode, varsC, varsH, varsB, first_read, vars63, varsS, prev13, vars14, file13, att_name_line>>

\* _add_dsets_and_update_sim(): built_data.extend(dsets) for every attribute.
RECURSIVE Flatten(_)
Flatten(ss) == IF Len(ss) = 0 THEN << >> ELSE ss[1] \o Flatten(Tail(ss))
AddDsetsAndUpdateSim(r) ==
  [r EXCEPT !.built_data = @ \o Flatten(DictValues(r.att_dsets))]

\* read(): _add_dsets_and_update_sim(), leave the with block, return.
F13Finish ==
  /\ pc13 = "finish"
  /\ f13' = AddDsetsAndUpdateSim(f13)
  /\ fs' = [fs EXCEPT !.open = FALSE]
  /\ pc13' = "done"
  /\ UNCHANGED <<mode, varsC, varsH, varsB, first_read, vars63, varsS, prev13, vars14, file13, att_i, att_name_line, log13, err13>>

Next13 ==
  \/ F13Check
  \/ F13Header
  \/ F13ReadAttInfo
  \/ F13ReadAttName
  \/ F13TestAttName
  \/ F13ReadAttValues
  \/ F13Finish

(* ====================== DatasetsFromFort13Tool ======================== *)
\* run() (lines 49-50) with the grid a Fort14Reader produced as input grid:
\* get_grid_info gives co_grid.ugrid.point_count to the Fort13Reader.
ToolGetGridInfo ==
  /\ mode = "tool"
  /\ pc14 = "done"
  /\ pc13 = "idle"
  /\ f13' = Fort13Init(Len(ret14[1].co_grid[1].points))
  /\ pc13' = "start"
  /\ UNCHANGED <<mode, varsC, varsH, varsB, first_read, vars63, varsS, prev13, vars14, file13, fs, att_i, att_name_line, log13, err13>>

(* ==================== a second read of the same data ================== *)
\* The lines from 1-based line p on (p is the name line of a value block) with
\* blank[j] empty lines put before the name line of the j-th block that follows.
RECURSIVE WithBlanksFrom(_, _, _)
WithBlanksFrom(lines, p, blank) ==
  IF Len(blank) = 0 \/ p + 1 > Len(lines) THEN SubSeq(lines, p, Len(lines))
  ELSE LET cnt == IF IntOf(lines[p + 1][1]) > 0 THEN IntOf(lines[p + 1][1]) ELSE 0
           q == p + 2 + cnt
       IN [i \in 1..blank[1] |-> << >>] \o SubSeq(lines, p, q - 1)
          \o WithBlanksFrom(lines, q, Tail(blank))
\* A fort.13 of num_atts attributes with empty lines put before its value blocks.
WithBlanks(lines, num_atts, blank) ==
  SubSeq(lines, 1, 3 + 4 * num_atts) \o WithBlanksFrom(lines, 4 + 4 * num_atts, blank)

\* What a finished read() leaves for its caller.
Outcome13 ==
  [returned |-> (pc13 = "done"),
   names |-> [i \in 1..Len(f13.datasets) |-> f13.datasets[i].k],
   values |-> [i \in 1..Len(f13.datasets) |-> f13.datasets[i].v.values],
   nodal_atts |-> f13.nodal_atts,
   warnings |-> log13]

\* After a read() has ended, the same file is written again with empty lines
\* before some of its value blocks and a new Fort13Reader is constructed on it
\* for the same geometry.
F13ReadAgainWithBlanks ==
  /\ mode = "f13again"
  /\ pc13 \in {"done", "raised"}
  /\ prev13 = << >>
  /\ \E blank \in [1..f13.num_atts -> 0..MaxBlank] :
       /\ \E j \in 1..f13.num_atts : blank[j] > 0
       /\ file13' = [file13 EXCEPT !.lines = WithBlanks(@, f13.num_atts, blank)]
  /\ prev13' = <<Outcome13>>
  /\ f13' = Fort13Init(f13.geom_num_nodes)
  /\ fs' = NoHandle
  /\ att_i' = 0
  /\ att_name_line' = << >>
  /\ log13' = << >>
  /\ pc13' = "start"
  /\ err13' = ""
  /\ UNCHANGED <<mode, varsC, varsH, varsB, first_read, vars63, varsS, vars14>>

(* ======================= a reader read twice ========================= *)
\* What a read() of a Fort14Reader gave its caller.
Outcome14 == [raised |-> err14, returned |-> ret14]
\* What a read() of a Fort13Reader gave its caller: the names and values of
\* the datasets and of built_data.
OutcomeTwice13 ==
  [raised |-> err13,
   datasets |-> [i \in 1..Len(f13.datasets) |->
                   [name |-> f13.datasets[i].k, values |-> f13.datasets[i].v.values]],
   built_data |-> [i \in 1..Len(f13.built_data) |->
                     [name |-> f13.built_data[i].name, values |-> f13.built_data[i].values]]]

\* read() is called again on the Fort14Reader whose read() has ended: the
\* object is as the first call left it and the locals are new.
F14ReadAgain ==
  /\ mode = "f14twice"
  /\ pc14 \in {"done", "raised"}
  /\ first_read = << >>
  /\ first_read' = <<Outcome14>>
  /\ cell_stream' = << >>
  /\ pc14' = "start"
  /\ err14' = ""
  /\ ret14' = << >>
  /\ UNCHANGED <<mode, varsC, varsH, varsB, vars63, varsS, file14, f14, vars13>>
\* The same for a Fort13Reader.
F13ReadAgain ==
  /\ mode = "f13twice"
  /\ pc13 \in {"done", "raised"}
  /\ first_read = << >>
  /\ first_read' = <<OutcomeTwice13>>
  /\ fs' = NoHandle
  /\ att_i' = 0
  /\ att_name_line' = << >>
  /\ log13' = << >>
  /\ pc13' = "start"
  /\ err13' = ""
  /\ UNCHANGED <<mode, varsC, varsH, varsB, vars63, varsS, file13, f13, prev13, vars14>>

(* ============================ Fort63Reader =========================== *)
\* ADCIRC_NULL_VALUE = -99999.0, in tenths.
ADCIRC_NULL_VALUE == -999990

\* An element of a NetCDF variable of doubles: a number (in tenths) or NaN.
Num(v) == [nan |-> FALSE, v |-> v]
NaN == [nan |-> TRUE, v |-> 0]
\* a[a == ADCIRC_NULL_VALUE] = np.nan for one element; NaN equals nothing.
NullToNan(x) == IF ~x.nan /\ x.v = ADCIRC_NULL_VALUE THEN NaN ELSE x
\* a[np.isnan(a)] = ADCIRC_NULL_VALUE for one element.
NanToNull(x) == IF x.nan THEN Num(ADCIRC_NULL_VALUE) ELSE x
\* Both replacements, one after the other, on a (time, node) array.
DecodeScalars(a) == [t \in 1..Len(a) |-> [n \in 1..Len(a[t]) |-> NanToNull(NullToNan(a[t][n]))]]
\* data.size of a (time, node) array.
ArraySize(a) == IF Len(a) = 0 THEN 0 ELSE Len(a) * Len(a[1])

\* The states a netCDF4.Dataset nobody closes can be in once the method that
\* opened it has returned: it stays open until the object is collected, and
\* when that happens is up to the interpreter.
Unreferenced == {"open", "closed"}

\* Fort63Reader.__init__; root_grp is the state of the local of that name:
\* "none", "open" or "closed".
Fort63Init(geom) ==
  [geom_num_nodes |-> geom, dataset_writer |-> << >>, scalar_data |-> << >>, times |-> << >>,
   root_grp |-> "none"]

\* _read_netcdf_scalars(): the file is opened, the variable is read and its
\* null values go to NaN and back.
F63ReadNetcdfScalars ==
  /\ pc63 = "start"
  /\ f63' = [f63 EXCEPT !.scalar_data = DecodeScalars(file63.zeta), !.times = file63.time,
                         !.root_grp = "open"]
  /\ pc63' = "write"
  /\ UNCHANGED <<mode, varsC, varsH, varsB, first_read, file63, err63, varsS, vars14, vars13>>

\* _write_xmdf_dataset(): size / len(times) fails without a timestep, and
\* otherwise is the integer geom_num_nodes exactly when size is that many
\* times len(times); the writer is kept only after the dataset is written.
\* Nothing closes root_grp: the exception that leaves read() holds it.
F63WriteXmdfDataset ==
  /\ pc63 = "write"
  /\ IF Len(f63.times) = 0
       THEN pc63' = "raised" /\ err63' = "ZeroDivisionError" /\ f63' = f63
     ELSE IF ArraySize(f63.scalar_data) # f63.geom_num_nodes * Len(f63.times)
       THEN pc63' = "raised" /\ err63' = "ValueError: Incorrect number of values" /\ f63' = f63
     ELSE /\ \E g \in Unreferenced :
               f63' = [f63 EXCEPT !.dataset_writer =
                         <<[null_value |-> ADCIRC_NULL_VALUE, times |-> f63.times,
                            values |-> f63.scalar_data]>>,
                                  !.root_grp = g]
          /\ pc63' = "done"
          /\ err63' = ""
  /\ UNCHANGED <<mode, varsC, varsH, varsB, first_read, file63, varsS, vars14, vars13>>

Next63 == F63ReadNetcdfScalars \/ F63WriteXmdfDataset

(* ======================== ADCIRCSolutionReader ======================= *)
\* file.readline().split() at line position p (0-based): '' at end of file.
LineS(p) == IF p < Len(fileS.lines) THEN fileS.lines[p + 1] ELSE << >>
AdvS(p) == IF p < Len(fileS.lines) THEN p + 1 ELSE p

\* DatasetWriter(name=, num_components=, null_value=ADCIRC_NULL_VALUE, ...)
NewWriter(name, comps) ==
  [name |-> name, num_components |-> comps, null_value |-> ADCIRC_NULL_VALUE,
   times |-> << >>, values |-> << >>, finished |-> FALSE]
\* ADCIRCSolutionReader.__init__ and the locals of the method about to run;
\* out is what add_xmdf_dataset handed on and root_grps the states of the
\* NetCDF files the read_netcdf_* methods opened.
SolInit(name) ==
  [num_ts |-> 0, num_nodes |-> 0, name |-> name, pos |-> 0, i |-> 0, read_data |-> FALSE,
   writer |-> << >>, out |-> << >>, root_grps |-> << >>]
\* A read_netcdf_* method returns with r: it opened a file and closed none.
NetcdfReturn(r) ==
  \E g \in Unreferenced : rdr' = [r EXCEPT !.root_grps = Append(@, g)]

\* The exception read_header() raises on the second line, "" for none.
HeaderErrorS(t) ==
  IF Len(t) < 1 THEN "IndexError"
  ELSE IF ~IsInt(t[1]) THEN "ValueError"
  ELSE IF Len(t) < 2 THEN "IndexError"
  ELSE IF ~IsInt(t[2]) THEN "ValueError"
  ELSE ""
\* read_header(): the first line is skipped, the second gives the counts.
ReadHeader(r) ==
  LET t == LineS(AdvS(r.pos))
  IN IF HeaderErrorS(t) # "" THEN [err |-> HeaderErrorS(t), r |-> r]
     ELSE [err |-> "",
           r |-> [r EXCEPT !.num_ts = IntOf(t[1]), !.num_nodes = IntOf(t[2]),
                           !.pos = AdvS(AdvS(r.pos))]]

\* The exception the floats of a value line raise, "" for none: the value is
\* float(node_line[1]), and [float(node_line[1]), float(node_line[2])] for a
\* vector.
ValueErrorS(t, comps) ==
  LET bad == {k \in 1..comps : Len(t) < k + 1 \/ ~IsFloat(t[k + 1])}
  IN IF bad = {} THEN ""
     ELSE LET k == CHOOSE x \in bad : \A y \in bad : x <= y
          IN IF Len(t) < k + 1 THEN "IndexError" ELSE "ValueError"
ValueS(t, comps) == IF comps = 1 THEN FloatOf(t[2]) ELSE <<FloatOf(t[2]), FloatOf(t[3])>>

\* Variant of SparseIndex that takes the node id for the index.
SparseIndexById(t) == IntOf(t[1])
\* node_id - 1: the list index of a sparse value line.
SparseIndex(t) == IntOf(t[1]) - 1

\* The loop over the value lines of one timestep, from iteration j at line
\* position p: a blank line or the end of the file ends it with add = FALSE.
RECURSIVE ReadValues(_, _, _, _, _, _)
ReadValues(vals, p, j, num_vals, sparse, comps) ==
  IF j >= num_vals THEN [err |-> "", add |-> TRUE, vals |-> vals, pos |-> p]
  ELSE LET t == LineS(p)
           idx == IF sparse THEN SparseIndex(t) ELSE j
       IN IF Len(t) = 0 THEN [err |-> "", add |-> FALSE, vals |-> vals, pos |-> AdvS(p)]
          ELSE IF sparse /\ ~IsInt(t[1])
            THEN [err |-> "ValueError", add |-> FALSE, vals |-> vals, pos |-> AdvS(p)]
          ELSE IF ValueErrorS(t, comps) # ""
            THEN [err |-> ValueErrorS(t, comps), add |-> FALSE, vals |-> vals, pos |-> AdvS(p)]
          ELSE IF ~ListIndexOk(idx, Len(vals))
            THEN [err |-> "IndexError", add |-> FALSE, vals |-> vals, pos |-> AdvS(p)]
          ELSE ReadValues([vals EXCEPT ![ListPos(idx, Len(vals))] = ValueS(t, comps)],
                          AdvS(p), j + 1, num_vals, sparse, comps)

\* The exception the timestep line t raises, "" for none; it is sparse when
\* it has more than `plain` tokens.
StepLineError(t, sparse, comps) ==
  IF ~IsFloat(t[1]) THEN "ValueError"
  ELSE IF ~sparse THEN ""
  ELSE IF ~IsInt(t[3]) THEN "ValueError"
  ELSE LET bad == {k \in 1..comps : Len(t) < k + 3 \/ ~IsFloat(t[k + 3])}
       IN IF bad = {} THEN ""
          ELSE LET k == CHOOSE x \in bad : \A y \in bad : x <= y
               IN IF Len(t) < k + 3 THEN "IndexError" ELSE "ValueError"

\* One iteration of the timestep loop of read_ascii_scalars (comps = 1, a
\* timestep line of more than 3 tokens is sparse) and read_ascii_vectors
\* (comps = 2, more than 2 tokens).
Timestep(r, comps) ==
  LET t == LineS(r.pos)
      sparse == Len(t) > (IF comps = 1 THEN 3 ELSE 2)
      num_vals == IF sparse THEN IntOf(t[3]) ELSE r.num_nodes
      default == IF sparse THEN ValueS(SubSeq(t, 3, Len(t)), comps)
                 ELSE IF comps = 1 THEN 0 ELSE <<0, 0>>
      ts_vals == [n \in 1..r.num_nodes |-> default]
      res == ReadValues(ts_vals, AdvS(r.pos), 0, num_vals, sparse, comps)
  IN IF Len(t) = 0 THEN [kind |-> "break", r |-> [r EXCEPT !.pos = AdvS(r.pos)]]
     ELSE IF StepLineError(t, sparse, comps) # ""
       THEN [kind |-> StepLineError(t, sparse, comps), r |-> [r EXCEPT !.pos = AdvS(r.pos)]]
     ELSE IF res.err # "" THEN [kind |-> res.err, r |-> [r EXCEPT !.pos = res.pos]]
     ELSE IF ~res.add THEN [kind |-> "next", r |-> [r EXCEPT !.pos = res.pos, !.i = @ + 1]]
     ELSE [kind |-> "next",
           r |-> [r EXCEPT !.pos = res.pos, !.i = @ + 1, !.read_data = TRUE,
                           !.writer = <<[@[1] EXCEPT !.times = Append(@, FloatOf(t[1])),
                                                     !.values = Append(@, res.vals)]>>]]

\* The step of the reader after Timestep: the loop goes on, ends, or the
\* exception is caught and logged.
AfterTimestep(x) ==
  /\ rdr' = x.r
  /\ IF x.kind = "next" THEN pcS' = "loop" /\ errS' = errS
     ELSE IF x.kind = "break" THEN pcS' = "finish" /\ errS' = errS
     ELSE pcS' = "caught" /\ errS' = x.kind
  /\ UNCHANGED <<mode, varsC, varsH, varsB, first_read, fileS, vars63, vars14, vars13>>

\* read_ascii_scalars() / read_ascii_vectors() up to the loop: the writer is
\* made and the header read.
OpenAscii(comps) ==
  LET h == ReadHeader([rdr EXCEPT !.writer = <<NewWriter(rdr.name, comps)>>])
  IN /\ rdr' = h.r
     /\ IF h.err # "" THEN pcS' = "caught" /\ errS' = h.err
        ELSE pcS' = "loop" /\ errS' = errS
     /\ UNCHANGED <<mode, varsC, varsH, varsB, first_read, fileS, vars63, vars14, vars13>>
AsciiScalarsOpen == pcS = "start" /\ fileS.kind = "ascii_scalars" /\ OpenAscii(1)
AsciiVectorsOpen == pcS = "start" /\ fileS.kind = "ascii_vectors" /\ OpenAscii(2)
AsciiScalarsTimestep ==
  /\ pcS = "loop" /\ fileS.kind = "ascii_scalars" /\ rdr.i < rdr.num_ts
  /\ AfterTimestep(Timestep(rdr, 1))
AsciiVectorsTimestep ==
  /\ pcS = "loop" /\ fileS.kind = "ascii_vectors" /\ rdr.i < rdr.num_ts
  /\ AfterTimestep(Timestep(rdr, 2))
\* After the loop: a writer that got a timestep is finished and its dataset
\* added.
AsciiFinish ==
  /\ fileS.kind \in {"ascii_scalars", "ascii_vectors"}
  /\ pcS = "finish" \/ (pcS = "loop" /\ rdr.i >= rdr.num_ts)
  /\ rdr' = IF rdr.read_data
              THEN [rdr EXCEPT !.writer = <<[@[1] EXCEPT !.finished = TRUE]>>,
                               !.out = Append(@, [name |-> rdr.writer[1].name,
                                                  times |-> rdr.writer[1].times,
                                                  values |-> rdr.writer[1].values])]
              ELSE rdr
  /\ pcS' = "done"
  /\ UNCHANGED <<mode, varsC, varsH, varsB, first_read, fileS, errS, vars63, vars14, vars13>>

\* _write_xmdf_dataset(): a new writer writes the dataset and
\* add_xmdf_dataset hands it on.
WriteXmdfDataset(r, name, times, data) ==
  [r EXCEPT !.out = Append(@, [name |-> name, times |-> times, values |-> data])]

\* Variant of MaxName that appends ' Time' in the first iteration as well.
MaxNameAlways(name, i) == name \o " Time"
\* if i > 0: name += ' Time'
MaxName(name, i) == IF i > 0 THEN name \o " Time" ELSE name

\* read_ascii_max_scalars() up to the loop.
AsciiMaxOpen ==
  /\ pcS = "start" /\ fileS.kind = "ascii_max"
  /\ LET h == ReadHeader(rdr)
     IN /\ rdr' = h.r
        /\ IF h.err # "" THEN pcS' = "done" /\ errS' = h.err
           ELSE pcS' = "loop" /\ errS' = errS
  /\ UNCHANGED <<mode, varsC, varsH, varsB, first_read, fileS, vars63, vars14, vars13>>
\* One of the two iterations of read_ascii_max_scalars(); every exception is
\* passed over in silence.
AsciiMaxBlock ==
  /\ pcS = "loop" /\ fileS.kind = "ascii_max" /\ rdr.i < 2
  /\ LET t == LineS(rdr.pos)
         res == ReadValues([n \in 1..rdr.num_nodes |-> 0], AdvS(rdr.pos), 0, rdr.num_nodes,
                           FALSE, 1)
         name == MaxName(rdr.name, rdr.i)
     IN IF Len(t) = 0
          THEN rdr' = [rdr EXCEPT !.pos = AdvS(@)] /\ pcS' = "done" /\ errS' = errS
        ELSE IF ~IsFloat(t[1])
          THEN rdr' = [rdr EXCEPT !.pos = AdvS(@)] /\ pcS' = "done" /\ errS' = "ValueError"
        ELSE IF res.err # ""
          THEN rdr' = [rdr EXCEPT !.pos = res.pos] /\ pcS' = "done" /\ errS' = res.err
        ELSE /\ rdr' = IF res.add
                         THEN [WriteXmdfDataset(rdr, name, <<FloatOf(t[1])>>, <<res.vals>>)
                                 EXCEPT !.pos = res.pos, !.i = @ + 1, !.name = name]
                         ELSE [rdr EXCEPT !.pos = res.pos, !.i = @ + 1]
             /\ pcS' = IF rdr.i + 1 < 2 THEN "loop" ELSE "done"
             /\ errS' = errS
  /\ UNCHANGED <<mode, varsC, varsH, varsB, first_read, fileS, vars63, vars14, vars13>>

\* read_netcdf_vectors(): the null values of both components go to NaN, the
\* components are stacked, and NaN goes back to the null value.
ReadNetcdfVectors ==
  /\ pcS = "start" /\ fileS.kind = "nc_vectors"
  /\ NetcdfReturn(IF ArraySize(fileS.x) = 0 THEN rdr
                  ELSE WriteXmdfDataset(rdr, rdr.name, fileS.time,
                         [t \in 1..Len(fileS.x) |-> [n \in 1..Len(fileS.x[t]) |->
                            <<NanToNull(NullToNan(fileS.x[t][n])),
                              NanToNull(NullToNan(fileS.y[t][n]))>>]]))
  /\ pcS' = "done"
  /\ UNCHANGED <<mode, varsC, varsH, varsB, first_read, fileS, errS, vars63, vars14, vars13>>

\* float(x) if x else ADCIRC_NULL_VALUE: 0.0 is false, NaN is true.
FloatOrNull(x) == IF ~x.nan /\ x.v = 0 THEN Num(ADCIRC_NULL_VALUE) ELSE x
\* read_netcdf_max_scalars(): the extreme values and their times, each as a
\* dataset of one timestep at 0.0.
ReadNetcdfMaxScalars ==
  /\ pcS = "start" /\ fileS.kind = "nc_max"
  /\ NetcdfReturn(IF Len(fileS.extreme) = 0 THEN rdr
                  ELSE WriteXmdfDataset(
                         WriteXmdfDataset(rdr, rdr.name, <<0>>,
                           <<[n \in 1..Len(fileS.extreme) |-> FloatOrNull(fileS.extreme[n])]>>),
                         rdr.name \o " Time", <<0>>,
                         <<[n \in 1..Len(fileS.extreme_time) |->
                              FloatOrNull(fileS.extreme_time[n])]>>))
  /\ pcS' = "done"
  /\ UNCHANGED <<mode, varsC, varsH, varsB, first_read, fileS, errS, vars63, vars14, vars13>>

\* read_netcdf_scalars(): an empty variable is passed over; otherwise the
\* null values go to NaN and back and the dataset is written.
ReadNetcdfScalars ==
  /\ pcS = "start" /\ fileS.kind = "nc_scalars"
  /\ NetcdfReturn(IF ArraySize(fileS.data) = 0 THEN rdr
                  ELSE WriteXmdfDataset(rdr, rdr.name, fileS.time, DecodeScalars(fileS.data)))
  /\ pcS' = "done"
  /\ UNCHANGED <<mode, varsC, varsH, varsB, first_read, fileS, errS, vars63, vars14, vars13>>

\* A read_netcdf_* method on a file netCDF4.Dataset() cannot open (OSError),
\* or one it opens and that is without the variable asked for (IndexError):
\* nothing catches the exception, and it holds the file that was opened.
ReadNetcdfRaises ==
  /\ pcS = "start" /\ fileS.kind = "nc_error"
  /\ pcS' = "raised"
  /\ errS' = fileS.err
  /\ rdr' = IF fileS.err = "OSError" THEN rdr ELSE [rdr EXCEPT !.root_grps = Append(@, "open")]
  /\ UNCHANGED <<mode, varsC, varsH, varsB, first_read, fileS, vars63, vars14, vars13>>

\* The exception the value line t of a harmonic file raises, "" for none:
\* float(line[0]), float(line[1]) for a scalar and float(line[0]),
\* float(line[2]), float(line[1]), float(line[3]) for a vector.
HarmonicLineError(t, scalar) ==
  LET order == IF scalar THEN <<1, 2>> ELSE <<1, 3, 2, 4>>
      bad == {k \in 1..Len(order) : Len(t) < order[k] \/ ~IsFloat(t[order[k]])}
  IN IF bad = {} THEN ""
     ELSE LET k == CHOOSE x \in bad : \A y \in bad : x <= y
          IN IF Len(t) < order[k] THEN "IndexError" ELSE "ValueError"
\* The exception int(f.readline().split()[0]) raises on line t, "" for none.
CountLineError(t) ==
  IF Len(t) = 0 THEN "IndexError" ELSE IF ~IsInt(t[1]) THEN "ValueError" ELSE ""
\* math.sqrt(x**2 + y**2), kept as the number it is the square root of.
Magnitude(x, y) == [sqrt_of |-> x * x + y * y]
\* read_ascii_harmonic(): the constituent names, the point count, one block
\* of value lines per point, and then two datasets per constituent (four for
\* a vector); err is the exception raised, "" for none.
Harmonic(r, scalar) ==
  LET t0 == LineS(0)
      num_cons == IF IntOf(t0[1]) > 0 THEN IntOf(t0[1]) ELSE 0
      short == {i \in 1..num_cons : Len(LineS(i)) < 4}
      tp == LineS(num_cons + 1)
      num_pts == IF IntOf(tp[1]) > 0 THEN IntOf(tp[1]) ELSE 0
      line(i, j) == LineS(num_cons + 2 + (i - 1) * (num_cons + 1) + j)
      bad == {ij \in (1..num_pts) \X (1..num_cons) : HarmonicLineError(line(ij[1], ij[2]), scalar) # ""}
      first == CHOOSE a \in bad : \A b \in bad : a[1] < b[1] \/ (a[1] = b[1] /\ a[2] <= b[2])
      amp(j) == [i \in 1..num_pts |->
                   IF scalar THEN FloatOf(line(i, j)[1])
                   ELSE <<FloatOf(line(i, j)[1]), FloatOf(line(i, j)[3])>>]
      phase(j) == [i \in 1..num_pts |->
                     IF scalar THEN FloatOf(line(i, j)[2])
                     ELSE <<FloatOf(line(i, j)[2]), FloatOf(line(i, j)[4])>>]
      mag(v) == [i \in 1..Len(v) |-> Magnitude(v[i][1], v[i][2])]
      dset(name, v) == [name |-> name, times |-> <<0>>, values |-> <<v>>]
      type == IF scalar THEN " Elevation " ELSE " Velocity "
      dsets(j) ==
        <<dset(LineS(j)[4] \o type \o "Amplitude", amp(j)),
          dset(LineS(j)[4] \o type \o "Phase", phase(j))>>
        \o (IF scalar THEN << >>
            ELSE <<dset(LineS(j)[4] \o type \o "Amplitude Magnitude", mag(amp(j))),
                   dset(LineS(j)[4] \o type \o "Phase Magnitude", mag(phase(j)))>>)
  IN IF CountLineError(t0) # "" THEN [err |-> CountLineError(t0), r |-> r]
     ELSE IF short # {} THEN [err |-> "IndexError", r |-> r]
     ELSE IF CountLineError(tp) # "" THEN [err |-> CountLineError(tp), r |-> r]
     ELSE IF bad # {}
       THEN [err |-> HarmonicLineError(line(first[1], first[2]), scalar), r |-> r]
     ELSE [err |-> "", r |-> [r EXCEPT !.out = @ \o Flatten([j \in 1..num_cons |-> dsets(j)])]]
\* read_ascii_harmonic53() / read_ascii_harmonic54(): nothing catches what
\* read_ascii_harmonic() raises.
AsciiHarmonic ==
  /\ pcS = "start" /\ fileS.kind \in {"harmonic53", "harmonic54"}
  /\ LET h == Harmonic(rdr, fileS.kind = "harmonic53")
     IN /\ rdr' = h.r
        /\ errS' = h.err
        /\ pcS' = IF h.err # "" THEN "raised" ELSE "done"
  /\ UNCHANGED <<mode, varsC, varsH, varsB, first_read, fileS, vars63, vars14, vars13>>


NextS ==
  \/ AsciiScalarsOpen \/ AsciiScalarsTimestep
  \/ AsciiVectorsOpen \/ AsciiVectorsTimestep
  \/ AsciiFinish
  \/ AsciiMaxOpen \/ AsciiMaxBlock
  \/ ReadNetcdfVectors \/ ReadNetcdfMaxScalars
  \/ ReadNetcdfScalars \/ ReadNetcdfRaises
  \/ AsciiHarmonic

(* ================= ADCIRCSolutionReader.read (the batch) ============== *)
\* A file of the batch is [exists, basename, nc, vars, lines]: a NetCDF file
\* (nc) has variables, given as the items [k, v] of vars, and a text file
\* has lines.
NETCDF_STATIONS == {"fort.61.nc", "fort.62.nc", "fort.71.nc", "fort.72.nc"}
ASCII_STATIONS == {"fort.61", "fort.62", "fort.71", "fort.72"}

\* str.lower() on the basenames that occur.
Lower(name) ==
  CASE name = "FORT.62.NC" -> "fort.62.nc"
    [] name = "Fort.63" -> "fort.63"
    [] OTHER -> name
\* sub in s
Contains(sub, s) ==
  \E i \in 1..(Len(s) - Len(sub) + 1) : SubSeq(s, i, i + Len(sub) - 1) = sub

\* The methods get_reader() can return: the method of ADCIRCSolutionReader
\* each one calls (kind), the dataset name and the NetCDF variables it
\* passes; the three read_unknown_* methods pass the file's basename.
Readers ==
  [read_netcdf_elevation |-> [kind |-> "nc_scalars", name |-> "Water Surface (eta)", paths |-> <<"zeta">>],
   read_netcdf_velocity |-> [kind |-> "nc_vectors", name |-> "Current Velocity (curr)", paths |-> <<"u-vel", "v-vel">>],
   read_netcdf_meteor73 |-> [kind |-> "nc_scalars", name |-> "Atmospheric Pressure", paths |-> <<"pressure">>],
   read_netcdf_meteor74 |-> [kind |-> "nc_vectors", name |-> "Wind Stress", paths |-> <<"windx", "windy">>],
   read_netcdf_maxele63 |-> [kind |-> "nc_max", name |-> "Max eta", paths |-> <<"zeta_max", "time_of_zeta_max">>],
   read_netcdf_maxvel63 |-> [kind |-> "nc_max", name |-> "Max curr", paths |-> <<"vel_max", "time_of_vel_max">>],
   read_netcdf_maxwvel63 |-> [kind |-> "nc_max", name |-> "Max Windvel", paths |-> <<"wind_max", "time_of_wind_max">>],
   read_netcdf_minpr63 |-> [kind |-> "nc_max", name |-> "Min press", paths |-> <<"pressure_min", "time_of_pressure_min">>],
   read_netcdf_maxrs63 |-> [kind |-> "nc_max", name |-> "Max Radstress", paths |-> <<"radstress_max", "time_of_radstress_max">>],
   read_ascii_elevation |-> [kind |-> "ascii_scalars", name |-> "Water Surface (eta)", paths |-> << >>],
   read_ascii_velocity |-> [kind |-> "ascii_vectors", name |-> "Current Velocity (curr)", paths |-> << >>],
   read_ascii_meteor73 |-> [kind |-> "ascii_scalars", name |-> "Atmospheric Pressure", paths |-> << >>],
   read_ascii_meteor74 |-> [kind |-> "ascii_vectors", name |-> "Wind Stress", paths |-> << >>],
   read_maxele63 |-> [kind |-> "ascii_max", name |-> "Max eta", paths |-> << >>],
   read_maxvel63 |-> [kind |-> "ascii_max", name |-> "Max curr", paths |-> << >>],
   read_maxwvel63 |-> [kind |-> "ascii_max", name |-> "Max Windvel", paths |-> << >>],
   read_minpr63 |-> [kind |-> "ascii_max", name |-> "Min press", paths |-> << >>],
   read_maxrs63 |-> [kind |-> "ascii_max", name |-> "Max Radstress", paths |-> << >>],
   read_ascii_harmonic53 |-> [kind |-> "harmonic53", name |-> "", paths |-> << >>],
   read_ascii_harmonic54 |-> [kind |-> "harmonic54", name |-> "", paths |-> << >>],
   read_unknown_ascii_max |-> [kind |-> "ascii_max", name |-> "", paths |-> << >>],
   read_unknown_ascii_scalar |-> [kind |-> "ascii_scalars", name |-> "", paths |-> << >>],
   read_unknown_ascii_vector |-> [kind |-> "ascii_vectors", name |-> "", paths |-> << >>]]

\* _find_netcdf_reader(): the first known variable the file has.
FindNetcdfReader(file) ==
  LET has(name) == DictHas(file.vars, name)
  IN IF has("zeta") THEN "read_netcdf_elevation"
     ELSE IF has("u-vel") THEN "read_netcdf_velocity"
     ELSE IF has("pressure") THEN "read_netcdf_meteor73"
     ELSE IF has("windx") THEN "read_netcdf_meteor74"
     ELSE IF has("zeta_max") THEN "read_netcdf_maxele63"
     ELSE IF has("vel_max") THEN "read_netcdf_maxvel63"
     ELSE IF has("wind_max") THEN "read_netcdf_maxwvel63"
     ELSE IF has("pressure_min") THEN "read_netcdf_minpr63"
     ELSE IF has("radstress_max") THEN "read_netcdf_maxrs63"
     ELSE "None"
\* The line of a text file at position p (0-based), split; '' at its end.
LineOf(file, p) == IF p < Len(file.lines) THEN file.lines[p + 1] ELSE << >>
\* _check_for_harmonic_ascii_solution(): with more than one constituent, the
\* first value line tells fort.53 from fort.54; every exception gives None.
CheckForHarmonicAsciiSolution(file) ==
  LET first_line == LineOf(file, 0)
      nfreq == IntOf(first_line[1])
      data_line == LineOf(file, nfreq + 3)
  IN IF CountLineError(first_line) # "" THEN "None"
     ELSE IF nfreq <= 1 THEN "None"
     ELSE IF Len(data_line) = 2 THEN "read_ascii_harmonic53"
     ELSE IF Len(data_line) = 4 THEN "read_ascii_harmonic54"
     ELSE "None"
\* _find_ascii_reader(): the counts of the second line decide, and a second
\* line without them sends the file to the harmonic check.
FindAsciiReader(file) ==
  LET second_line == LineOf(file, 1)
  IN IF Len(second_line) < 5 \/ ~IsInt(second_line[1]) \/ ~IsInt(second_line[5])
       THEN CheckForHarmonicAsciiSolution(file)
     ELSE IF IntOf(second_line[5]) = 1
       THEN IF IntOf(second_line[1]) = 2 THEN "read_unknown_ascii_max"
            ELSE "read_unknown_ascii_scalar"
     ELSE IF IntOf(second_line[5]) = 2 THEN "read_unknown_ascii_vector"
     ELSE "None"
\* _determine_reader_from_file_properties(): a file netCDF4 cannot open is
\* taken for a text file.
DetermineReaderFromFileProperties(file) ==
  IF file.nc THEN FindNetcdfReader(file) ELSE FindAsciiReader(file)

\* The file names get_reader() knows, in the order it tries them.
KnownNames ==
  <<[sub |-> "fort.63.nc", reader |-> "read_netcdf_elevation"],
    [sub |-> "fort.64.nc", reader |-> "read_netcdf_velocity"],
    [sub |-> "fort.73.nc", reader |-> "read_netcdf_meteor73"],
    [sub |-> "fort.74.nc", reader |-> "read_netcdf_meteor74"],
    [sub |-> "maxele.63.nc", reader |-> "read_netcdf_maxele63"],
    [sub |-> "maxvel.63.nc", reader |-> "read_netcdf_maxvel63"],
    [sub |-> "maxwvel.63.nc", reader |-> "read_netcdf_maxwvel63"],
    [sub |-> "minpr.63.nc", reader |-> "read_netcdf_minpr63"],
    [sub |-> "maxrs.63.nc", reader |-> "read_netcdf_maxrs63"],
    [sub |-> "fort.63", reader |-> "read_ascii_elevation"],
    [sub |-> "fort.64", reader |-> "read_ascii_velocity"],
    [sub |-> "fort.73", reader |-> "read_ascii_meteor73"],
    [sub |-> "fort.74", reader |-> "read_ascii_meteor74"],
    [sub |-> "maxele.63", reader |-> "read_maxele63"],
    [sub |-> "maxvel.63", reader |-> "read_maxvel63"],
    [sub |-> "maxwvel.63", reader |-> "read_maxwvel63"],
    [sub |-> "minpr.63", reader |-> "read_minpr63"],
    [sub |-> "maxrs.63", reader |-> "read_maxrs63"],
    [sub |-> "fort.53", reader |-> "read_ascii_harmonic53"],
    [sub |-> "fort.54", reader |-> "read_ascii_harmonic54"]>>
\* get_reader(): the first known name the lower-case basename contains, and
\* the file's properties when it contains none.
GetReader(file) ==
  LET filename == Lower(file.basename)
      hits == {k \in 1..Len(KnownNames) : Contains(KnownNames[k].sub, filename)}
  IN IF hits = {} THEN DetermineReaderFromFileProperties(file)
     ELSE KnownNames[CHOOSE k \in hits : \A j \in hits : k <= j].reader

\* What the method `reader` is given to read of the file: the text lines, or
\* the variables a read_netcdf_* method takes from the file first.  A file
\* netCDF4.Dataset() cannot open gives OSError and a variable that is not in
\* the file IndexError; a file has all the variables of a method, or none,
\* and "time" with them.
Handed(file, reader) ==
  LET rd == Readers[reader]
      var(k) == DictGet(file.vars, rd.paths[k])
      missing == \E k \in 1..Len(rd.paths) : ~DictHas(file.vars, rd.paths[k])
  IN IF rd.kind \notin {"nc_scalars", "nc_vectors", "nc_max"}
       THEN [kind |-> rd.kind, lines |-> file.lines]
     ELSE IF ~file.nc THEN [kind |-> "nc_error", err |-> "OSError"]
     ELSE IF missing THEN [kind |-> "nc_error", err |-> "IndexError"]
     ELSE IF rd.kind = "nc_scalars"
       THEN [kind |-> "nc_scalars", time |-> DictGet(file.vars, "time"), data |-> var(1)]
     ELSE IF rd.kind = "nc_vectors"
       THEN [kind |-> "nc_vectors", time |-> DictGet(file.vars, "time"), x |-> var(1), y |-> var(2)]
     ELSE [kind |-> "nc_max", extreme |-> var(1), extreme_time |-> var(2)]
\* The dataset name the method passes on.
NameHanded(file, reader) ==
  IF Readers[reader].name = "" THEN file.basename ELSE Readers[reader].name

\* ADCIRCSolutionReader.__init__: attempts lists the files get_reader() was
\* called for and log the errors logged.
BatchInit(filenames) ==
  [filenames |-> filenames, i |-> 0, read_file |-> "", read_data |-> FALSE,
   attempts |-> << >>, log |-> << >>]

\* One iteration of the loop of add_mesh_datasets() up to the reader's call:
\* a file that is missing or a recording station is passed over, and so is,
\* with an error logged, one no reader is found for.
BatchNextFile ==
  /\ pcB = "loop" /\ batch.i < Len(batch.filenames)
  /\ LET file == batch.filenames[batch.i + 1]
         basename == Lower(file.basename)
         reader == GetReader(file)
         tried == [batch EXCEPT !.read_file = file.basename, !.attempts = Append(@, batch.i)]
     IN IF ~file.exists \/ basename \in NETCDF_STATIONS \/ basename \in ASCII_STATIONS
          THEN /\ batch' = [batch EXCEPT !.i = @ + 1]
               /\ UNCHANGED <<pcB, varsS>>
        ELSE IF reader = "None"
          THEN /\ batch' = [tried EXCEPT !.i = @ + 1,
                                         !.log = Append(@, "Unable to determine format of solution file")]
               /\ UNCHANGED <<pcB, varsS>>
        ELSE /\ batch' = tried
             /\ pcB' = "reading"
             /\ fileS' = Handed(file, reader)
             /\ rdr' = [SolInit(NameHanded(file, reader)) EXCEPT !.out = rdr.out,
                                                                 !.root_grps = rdr.root_grps]
             /\ pcS' = "start"
             /\ errS' = ""
  /\ UNCHANGED <<mode, varsC, varsH, first_read, errB, vars63, vars14, vars13>>
\* reader() returned: self.read_data = True, and on to the next file.
BatchReaderReturned ==
  /\ pcB = "reading" /\ pcS \in {"done", "caught"}
  /\ batch' = [batch EXCEPT !.read_data = TRUE, !.i = @ + 1]
  /\ pcB' = "loop"
  /\ pcS' = "idle"
  /\ UNCHANGED <<mode, varsC, varsH, first_read, errB, fileS, rdr, errS, vars63, vars14, vars13>>
\* reader() raised: add_mesh_datasets() and read() catch nothing.
BatchReaderRaised ==
  /\ pcB = "reading" /\ pcS = "raised"
  /\ pcB' = "raised"
  /\ errB' = errS
  /\ UNCHANGED <<mode, varsC, varsH, first_read, batch, varsS, vars63, vars14, vars13>>
\* read() after add_mesh_datasets(): the error of a batch that read no data.
BatchFinish ==
  /\ pcB = "loop" /\ batch.i >= Len(batch.filenames)
  /\ batch' = IF batch.read_data THEN batch
              ELSE [batch EXCEPT !.log = Append(@, "No ADCIRC solution files found")]
  /\ pcB' = "done"
  /\ UNCHANGED <<mode, varsC, varsH, first_read, errB, varsS, vars63, vars14, vars13>>

NextB == BatchNextFile \/ BatchReaderReturned \/ BatchReaderRaised \/ BatchFinish

(* ============================== inputs ================================ *)
Missing == [exists |-> FALSE, lines |-> << >>]
OnDisk(lines) == [exists |-> TRUE, lines |-> lines]
Prefixes(files) == UNION {{SubSeq(f, 1, k) : k \in 0..Len(f)} : f \in files}
SeqsUpTo(S, n) == UNION {[1..k -> S] : k \in 0..n}

\* ---- fort.14 files
\* Point ids of the node table: consecutive ids and one behind a gap.
PointIds == {1, 2, 4}
\* The i-th node line carries coordinates that tell it from the other lines.
NodeLine(id, i) == <<ToString(id), ToString(i), ToString(0 - i), ToString(i + 1)>>
\* A blank line and a line whose id is no number.
BadNodeLines == {<< >>, <<"x", "0", "0", "0">>}
CellLine(a, b, c) == <<"1", "3", ToString(a), ToString(b), ToString(c)>>
\* A cell line that is too short.
BadCellLines == {<<"1", "3", "1">>}

NodeLinesAt(i) == {NodeLine(id, i) : id \in PointIds} \cup BadNodeLines
\* Node tables of 0..MaxNodes lines, good and bad lines mixed.
NodeTables ==
  UNION {{t \in [1..n -> UNION {NodeLinesAt(i) : i \in 1..n}] :
            \A i \in 1..n : t[i] \in NodeLinesAt(i)} : n \in 0..MaxNodes}
\* Node tables of exactly MaxNodes good lines.
FullNodeTables ==
  {[i \in 1..MaxNodes |-> NodeLine(ids[i], i)] : ids \in [1..MaxNodes -> PointIds]}
CellLines ==
  {CellLine(a, b, c) : a \in PointIds, b \in PointIds, c \in PointIds} \cup BadCellLines

Mesh14(header, nodes, cells) == <<(<<"grid">>), header>> \o nodes \o cells
CountHeader(nodes, cells) == <<ToString(Len(cells)), ToString(Len(nodes))>>
\* Files whose header counts are the numbers of node and cell lines: every
\* node table with at most one cell, and the full node tables with up to
\* MaxCells cells.
NodeMeshes14 ==
  {Mesh14(CountHeader(nt, ct), nt, ct) : nt \in NodeTables, ct \in SeqsUpTo(CellLines, 1)}
CellMeshes14 ==
  {Mesh14(CountHeader(nt, ct), nt, ct) : nt \in FullNodeTables, ct \in SeqsUpTo(CellLines, MaxCells)}
\* Files whose header line is short, not numeric or negative.
OddHeader14 ==
  {Mesh14(h, << >>, << >>) : h \in {<< >>, <<"1">>, <<"x", "1">>, <<"0", "x">>, <<"-1", "-1">>}}
\* A node line at horizontal position (x, y).
CoordLine(id, x, y) == <<ToString(id), ToString(x), ToString(y), "0">>
\* Longitudes and latitudes on, inside and outside the limits of the extents test.
ExtentXs == {-181, -180, 0, 180, 181}
ExtentYs == {-91, -90, 0, 90, 91}
\* Meshes without cells: one node anywhere, the other nodes at the origin.
ExtentMeshes14 ==
  UNION {{Mesh14(<<"0", ToString(n)>>,
                 [i \in 1..n |-> IF i = k THEN CoordLine(i, x, y) ELSE CoordLine(i, 0, 0)],
                 << >>) :
            k \in 1..n, x \in ExtentXs, y \in ExtentYs} : n \in 1..MaxNodes}
\* The files above and the files that end early.
Fort14Files ==
  {Missing} \cup
  {OnDisk(l) : l \in Prefixes(NodeMeshes14) \cup CellMeshes14 \cup OddHeader14
                     \cup ExtentMeshes14}

\* ---- fort.13 files
AttNames == <<"mannings_n_at_sea_floor", GEOID, "my_att", "bridge_pilings_friction_paramenters">>
DefaultLines == {<<"1">>, <<"1", "2">>}
\* The r-th exception record of a block, for node id token `id`.
ExcRecord(id, r) == <<id, ToString(4 + r), ToString(5 + r)>>
\* Node id tokens of exception records: in range, out of range, not a number.
ExcIds == {ToString(i) : i \in -1..(MaxNodes + 1)} \cup {"x"}
ExcTables(ids) ==
  UNION {{[r \in 1..n |-> ExcRecord(f[r], r)] : f \in [1..n -> ids]} : n \in 0..MaxExc}

Block(name, defs, exc) == [name |-> name, defs |-> defs, exc |-> exc]
InfoLines(b) == <<(<<b.name>>), (<<"unit">>), (<<ToString(Len(b.defs))>>), b.defs>>
ValueLines(b, blank) ==
  [i \in 1..blank |-> << >>] \o <<(<<b.name>>), (<<ToString(Len(b.exc))>>)>> \o b.exc
RECURSIVE AllInfo(_)
AllInfo(blocks) == IF Len(blocks) = 0 THEN << >> ELSE InfoLines(blocks[1]) \o AllInfo(Tail(blocks))
RECURSIVE AllValues(_, _)
AllValues(blocks, blank) ==
  IF Len(blocks) = 0 THEN << >>
  ELSE ValueLines(blocks[1], blank[1]) \o AllValues(Tail(blocks), Tail(blank))
Fort13Lines(nn, na, blocks, blank) ==
  <<(<<"grid">>), (<<nn>>), (<<na>>)>> \o AllInfo(blocks) \o AllValues(blocks, blank)

NoBlank(n) == [i \in 1..n |-> 0]
\* The i-th of n plain attributes: one default, no exception.
PlainBlocks(n) == [i \in 1..n |-> Block(AttNames[((i - 1) % Len(AttNames)) + 1], <<"1">>, << >>)]

Input13(lines, geom) == [exists |-> TRUE, lines |-> lines, geom |-> geom]
\* Every header against every geometry size: node counts and attribute counts
\* from -1 up and a node count that is no number, and these files cut short.
HeaderFiles13 ==
  {Fort13Lines(nn, ToString(na), PlainBlocks(IF na > 0 THEN na ELSE 0),
               NoBlank(IF na > 0 THEN na ELSE 0)) :
     nn \in {ToString(i) : i \in -1..MaxNodes} \cup {"x"}, na \in -1..MaxAtts}
HeaderInputs13 ==
  {Input13(l, g) : l \in Prefixes(HeaderFiles13), g \in 0..MaxNodes}
\* One attribute with every table of exception records.
ValueInputs13 ==
  {Input13(Fort13Lines(ToString(nn), "1", <<Block(name, defs, exc)>>, NoBlank(1)), nn) :
     nn \in 1..MaxNodes, name \in {AttNames[1], AttNames[2]}, defs \in DefaultLines,
     exc \in ExcTables(ExcIds)}
\* Several attributes, each with no, a good or a bad exception record.
BlockChoices ==
  {Block(AttNames[i], defs, exc) :
     i \in 1..Len(AttNames), defs \in DefaultLines,
     exc \in {<< >>, <<ExcRecord("1", 1)>>, <<ExcRecord("x", 1)>>}}
MultiInputs13 ==
  UNION {{Input13(Fort13Lines("1", ToString(na), bs, NoBlank(na)), 1) :
            bs \in [1..na -> BlockChoices]} : na \in 2..MaxAtts}
\* Blank lines before the value blocks, and these files cut short.
BlankFiles13 ==
  UNION {{Fort13Lines("1", ToString(na), PlainBlocks(na), blank) :
            blank \in [1..na -> 0..MaxBlank]} : na \in 1..MaxAtts}
BlankInputs13 == {Input13(l, 1) : l \in Prefixes(BlankFiles13)}
\* The geoid offset alone: defaults with and without an exact double, on one
\* node and more, with no, one and two exception records.
GeoidInputs13 ==
  UNION {{Input13(Fort13Lines(ToString(nn), "1", <<Block(GEOID, defs, exc)>>, NoBlank(1)), nn) :
            defs \in {<<"0.1">>, <<"0.5">>, <<"1">>},
            exc \in {<< >>, <<ExcRecord("1", 1)>>,
                     <<ExcRecord(ToString(nn), 1), ExcRecord("1", 2)>>}} :
           nn \in 1..(MaxNodes + 1)}
Fort13Inputs ==
  {[exists |-> FALSE, lines |-> << >>, geom |-> MaxNodes]}
  \cup HeaderInputs13 \cup ValueInputs13 \cup MultiInputs13 \cup BlankInputs13
  \cup GeoidInputs13

\* Files read twice: attributes with one or two components, with and without
\* exception records, known and unknown names, and one with a bad record.
AgainBlocks ==
  {Block(AttNames[1], <<"1">>, <<ExcRecord("1", 1)>>),
   Block(AttNames[2], <<"1">>, << >>),
   Block(AttNames[3], <<"1", "2">>, <<ExcRecord("1", 1)>>),
   Block(AttNames[1], <<"1">>, <<ExcRecord("x", 1)>>)}
AgainInputs13 ==
  UNION {{Input13(Fort13Lines("1", ToString(na), bs, NoBlank(na)), 1) :
            bs \in [1..na -> AgainBlocks]} : na \in 1..MaxAtts}

\* ---- the tool run: meshes without cells, one attribute with one exception
ToolMeshes ==
  {OnDisk(Mesh14(<<"0", ToString(Len(ids))>>, [i \in 1..Len(ids) |-> NodeLine(ids[i], i)], << >>)) :
     ids \in SeqsUpTo(PointIds, MaxNodes) \ {<< >>}}
ToolAttFiles ==
  {OnDisk(Fort13Lines(ToString(nn), "1",
                      <<Block(AttNames[1], <<"1">>, <<ExcRecord(ToString(id), 1)>>)>>, NoBlank(1))) :
     nn \in 1..MaxNodes, id \in PointIds}

\* ---- readers read twice: meshes of two nodes with at most one cell, the
\* same with a second mesh after the first, and a missing file
TwoNodeMeshes ==
  {Mesh14(CountHeader(nt, ct), nt, ct) :
     nt \in {[i \in 1..2 |-> NodeLine(ids[i], i)] : ids \in [1..2 -> PointIds]},
     ct \in SeqsUpTo(CellLines, 1)}
TwiceMeshes ==
  {Missing} \cup {OnDisk(l) : l \in TwoNodeMeshes} \cup {OnDisk(l \o l) : l \in TwoNodeMeshes}

(* =========================== specifications =========================== *)
\* ---- fort.63.nc files
\* Elements of a NetCDF variable: zero, another number, the null value, NaN.
NcElems == {Num(0), Num(15), Num(ADCIRC_NULL_VALUE), NaN}
\* (time, node) arrays of T rows and N columns with one element of any kind.
NcArrays(T, N) ==
  IF T = 0 \/ N = 0 THEN {[t \in 1..T |-> << >>]}
  ELSE {[t \in 1..T |-> [n \in 1..N |-> IF <<t, n>> = at THEN e ELSE Num(15)]] :
          at \in (1..T) \X (1..N), e \in NcElems}
\* The time variable of T timesteps.
NcTimes(T) == [t \in 1..T |-> 10 * t]
Fort63Files ==
  UNION {{[time |-> NcTimes(T), zeta |-> a] : a \in NcArrays(T, N)} :
           T \in 0..MaxSteps, N \in 0..MaxNodes}

\* ---- ASCII solution files
SolHead(nt, nn) == <<(<<"run">>), (<<ToString(nt), ToString(nn)>>)>>
\* The k-th timestep in full: its time line and one value line per node.
FullStep(k, nn, comps) ==
  <<(<<ToString(k), "1">>)>> \o
  [j \in 1..nn |-> IF comps = 1 THEN <<ToString(j), ToString(k + j)>>
                  ELSE <<ToString(j), ToString(k + j), ToString(k + j + 1)>>]
RECURSIVE StepsUpTo(_, _, _)
StepsUpTo(T, nn, comps) ==
  IF T = 0 THEN << >> ELSE StepsUpTo(T - 1, nn, comps) \o FullStep(T, nn, comps)
\* The file with any one line after the header replaced by a blank line.
Blanked(f) == {[f EXCEPT ![k] = << >>] : k \in 3..Len(f)}
\* Complete files, files that end early and files with a blank line.
FullFiles(comps) ==
  LET full == {SolHead(T, nn) \o StepsUpTo(T, nn, comps) : T \in 1..MaxSteps, nn \in 0..MaxNodes}
  IN Prefixes(full) \cup UNION {Blanked(f) : f \in full}
\* One sparse timestep: the records give node ids in and out of range.
SparseStep(default, ids, comps) ==
  <<(<<"1", "1", ToString(Len(ids)), default>> \o (IF comps = 1 THEN << >> ELSE <<default>>))>> \o
  [r \in 1..Len(ids) |-> IF comps = 1 THEN <<ToString(ids[r]), ToString(3 + r)>>
                         ELSE <<ToString(ids[r]), ToString(3 + r), ToString(4 + r)>>]
SparseFiles(comps) ==
  UNION {{SolHead(1, nn) \o SparseStep(default, ids, comps) :
            default \in {"0", "1.5"}, ids \in SeqsUpTo(0..(nn + 1), MaxNodes)} :
           nn \in 1..MaxNodes}
\* max*.63 files: two value blocks under any declared timestep count, these
\* files cut short and with a blank line.
MaxFiles ==
  LET full == {SolHead(nt, nn) \o StepsUpTo(2, nn, 1) : nt \in 0..(MaxSteps + 1), nn \in 0..MaxNodes}
  IN Prefixes(full) \cup UNION {Blanked(f) : f \in full}
Ascii(kind, lines) == [kind |-> kind, lines |-> lines]

\* ---- NetCDF solution files
NcVectorFiles ==
  UNION {{[kind |-> "nc_vectors", time |-> NcTimes(T), x |-> a, y |-> b] :
            a \in NcArrays(T, N), b \in NcArrays(T, N)} :
           T \in 0..1, N \in 0..MaxNodes}
NcMaxFiles ==
  UNION {{[kind |-> "nc_max", extreme |-> a[1], extreme_time |-> b[1]] :
            a \in NcArrays(1, N), b \in NcArrays(1, N)} : N \in 0..MaxNodes}
\* ---- batches of solution files
TextFile(basename, lines) ==
  [exists |-> TRUE, basename |-> basename, nc |-> FALSE, vars |-> << >>, lines |-> lines]
NcFile(basename, variables) ==
  [exists |-> TRUE, basename |-> basename, nc |-> TRUE, vars |-> variables, lines |-> << >>]
NcVar(k, v) == [k |-> k, v |-> v]
\* The header of a solution file with its five counts.
FullHead(nt, nn, comps) ==
  <<(<<"run">>), (<<ToString(nt), ToString(nn), "1", "1", ToString(comps)>>)>>
ScalarLines == FullHead(1, 1, 1) \o <<(<<"1", "1">>), (<<"1", "5">>)>>
VectorLines == FullHead(1, 1, 2) \o <<(<<"1", "1">>), (<<"1", "5", "6">>)>>
MaxLines == FullHead(2, 1, 1) \o <<(<<"1", "1">>), (<<"1", "5">>), (<<"2", "1">>), (<<"1", "7">>)>>
HarmonicLines(cons, values) ==
  <<(<<ToString(cons)>>)>> \o [j \in 1..cons |-> <<"0", "0", "0", "M2">>]
  \o <<(<<"1">>), (<<"1">>)>> \o [j \in 1..cons |-> values]
ElevationVars == <<NcVar("time", NcTimes(1)), NcVar("zeta", <<(<<Num(15)>>)>>)>>
\* Files that are missing, recording stations, read with and without a
\* dataset to show for it, read with an exception, and not recognized.
BatchFiles ==
  {[exists |-> FALSE, basename |-> "fort.63", nc |-> FALSE, vars |-> << >>, lines |-> << >>],
   TextFile("fort.61", ScalarLines),
   NcFile("FORT.62.NC", ElevationVars),
   TextFile("Fort.63", ScalarLines),
   TextFile("fort.63", SubSeq(ScalarLines, 1, 3)),
   TextFile("fort.64", FullHead(1, 1, 2) \o <<(<<"1", "1">>), (<<"1", "x", "6">>)>>),
   TextFile("fort.74", VectorLines),
   TextFile("maxele.63", MaxLines),
   TextFile("minpr.63", SubSeq(MaxLines, 1, 1)),
   NcFile("fort.63.nc", ElevationVars),
   TextFile("fort.63.nc", ScalarLines),
   NcFile("fort.73.nc", ElevationVars),
   NcFile("fort.64.nc", <<NcVar("time", NcTimes(1)), NcVar("u-vel", <<(<<Num(15)>>)>>),
                          NcVar("v-vel", <<(<<NaN>>)>>)>>),
   NcFile("fort.74.nc", <<NcVar("time", << >>), NcVar("windx", << >>), NcVar("windy", << >>)>>),
   NcFile("maxele.63.nc", <<NcVar("zeta_max", <<Num(15)>>), NcVar("time_of_zeta_max", <<Num(0)>>)>>),
   TextFile("fort.53", HarmonicLines(1, <<"1", "2">>)),
   TextFile("fort.53", HarmonicLines(1, <<"1">>)),
   TextFile("fort.54", HarmonicLines(1, <<"1", "2", "3", "4">>)),
   TextFile("notes.txt", <<(<<"hello">>)>>),
   TextFile("elev.dat", ScalarLines),
   TextFile("vel.dat", VectorLines),
   TextFile("max.dat", MaxLines),
   TextFile("harm.dat", HarmonicLines(2, <<"1", "2">>)),
   NcFile("out.nc", ElevationVars),
   NcFile("depth.nc", <<NcVar("depth", <<Num(15)>>)>>)}
\* Any one file, followed by files of these four kinds.
LaterFiles ==
  {f \in BatchFiles : f.basename \in {"fort.61", "Fort.63", "fort.63", "notes.txt"} /\ f.exists}
Batches ==
  {<< >>} \cup {<<f>> \o l : f \in BatchFiles, l \in SeqsUpTo(LaterFiles, MaxBatch - 1)}

\* ---- more solution files: NetCDF scalars, files a read_netcdf_* method
\* cannot read, and harmonic analysis files
NcScalarFiles ==
  UNION {{[kind |-> "nc_scalars", time |-> NcTimes(T), data |-> a] : a \in NcArrays(T, N)} :
           T \in 0..1, N \in 0..MaxNodes}
NcErrorFiles == {[kind |-> "nc_error", err |-> e] : e \in {"OSError", "IndexError"}}
HarmonicFiles ==
  LET full == {HarmonicLines(cons, <<"1", "2", "3", "4">>) : cons \in 0..2}
               \cup {HarmonicLines(1, <<"1", "x">>), HarmonicLines(1, <<"1", "2", "y", "4">>)}
  IN {Ascii(kind, l) : kind \in {"harmonic53", "harmonic54"}, l \in Prefixes(full)}

SolutionFiles ==
  {Ascii("ascii_scalars", l) : l \in FullFiles(1) \cup SparseFiles(1)}
  \cup {Ascii("ascii_vectors", l) : l \in FullFiles(2) \cup SparseFiles(2)}
  \cup {Ascii("ascii_max", l) : l \in MaxFiles}
  \cup NcVectorFiles \cup NcMaxFiles
  \cup NcScalarFiles \cup NcErrorFiles \cup HarmonicFiles

(* =============== Fort14Reader._read_coverages (import reader) ========== *)
\* Boundary types _populate_bc_atts() gives an arc, by the IBTYPE of its
\* header; an IBTYPE of no branch leaves the type add_bc_atts() gave, named
\* UNASSIGNED here.
BcType(ib_type) ==
  IF ib_type % 10 = 0 /\ ib_type < 30 THEN "MAINLAND"
  ELSE IF ib_type % 10 = 1 /\ ib_type < 30 THEN "ISLAND"
  ELSE IF ib_type % 10 = 2 /\ ib_type < 30 THEN "RIVER"
  ELSE IF ib_type % 10 = 3 THEN "LEVEE_OUTFLOW"
  ELSE IF ib_type % 10 = 4 \/ ib_type % 10 = 5 THEN "LEVEE"
  ELSE IF ib_type \in {30, 32} THEN "RADIATION"
  ELSE IF ib_type \in {40, 41} THEN "ZERO_NORMAL"
  ELSE IF ib_type = 52 THEN "FLOW_AND_RADIATION"
  ELSE "UNASSIGNED"

UNINITIALIZED_COMP_ID == -1
\* The null value of a pipe height, 100.0, in tenths.
PipeNull == 1000

\* The reader when _read_coverages() is entered: lines are the lines of the
\* file after the element table (current_line counts from the first of them)
\* and pt_map is what _read_mesh() built. The lists are the method's locals.
CovInit(lines, pt_map) ==
  [lines |-> lines, pt_map |-> pt_map, current_line |-> 0,
   line |-> << >>, read_next_line |-> TRUE, arcs_left |-> 0,
   arc_types |-> << >>,
   comp_id_data |-> << >>, partner_id_data |-> << >>,
   nodes_start_idx_data |-> << >>, node_count_data |-> << >>,
   levee_data |-> << >>, levee_coords |-> << >>, nodes |-> << >>,
   snap_pipes |-> << >>, ocean_boundaries |-> << >>, river_boundaries |-> << >>,
   mapped_data |-> << >>]

RaiseC(kind) ==
  /\ pcC' = "raised"
  /\ errC' = kind
  /\ cov' = cov

\* The place of the first '!' in a token, 0 if it has none.
BangAt(tok) ==
  IF \E i \in 1..Len(tok) : SubSeq(tok, i, i) = "!"
    THEN CHOOSE i \in 1..Len(tok) :
           /\ SubSeq(tok, i, i) = "!"
           /\ \A j \in 1..(i - 1) : SubSeq(tok, j, j) # "!"
    ELSE 0
\* Variant of BeforeComment that tokenizes the whole line.
WholeLine(t) == t
\* str.partition('!')[0].split() on a line of tokens: the tokens before the
\* first '!', the last of them cut where the '!' stands.
BeforeComment(t) ==
  IF \E k \in 1..Len(t) : BangAt(t[k]) > 0
    THEN LET k == CHOOSE m \in 1..Len(t) :
                    BangAt(t[m]) > 0 /\ \A j \in 1..(m - 1) : BangAt(t[j]) = 0
         IN SubSeq(t, 1, k - 1) \o
            (IF BangAt(t[k]) > 1 THEN <<SubSeq(t[k], 1, BangAt(t[k]) - 1)>> ELSE << >>)
    ELSE t

\* int(line_data[j]) / float(line_data[j]) (j counted from 1): "" or what raises.
IntFieldError(t, j) ==
  IF Len(t) < j THEN "IndexError" ELSE IF ~IsInt(t[j]) THEN "ValueError" ELSE ""
FloatFieldError(t, j) ==
  IF Len(t) < j THEN "IndexError" ELSE IF ~IsFloat(t[j]) THEN "ValueError" ELSE ""
PtError(t, j, pt_map) ==
  IF IntFieldError(t, j) # "" THEN IntFieldError(t, j)
  ELSE IF ~DictHas(pt_map, IntOf(t[j])) THEN "KeyError" ELSE ""
FirstError(errs) ==
  IF \E i \in 1..Len(errs) : errs[i] # ""
    THEN errs[CHOOSE i \in 1..Len(errs) : errs[i] # "" /\ \A j \in 1..(i - 1) : errs[j] = ""]
    ELSE ""

\* What one node line of an ocean, simple land or generic arc raises.
NodeError(t, pt_map) == PtError(t, 1, pt_map)
\* ... one record of a levee outflow arc (lines 449-455) ...
OutflowError(t, pt_map) ==
  FirstError(<<PtError(t, 1, pt_map), FloatFieldError(t, 2), FloatFieldError(t, 3)>>)
\* ... one record of a levee pair (lines 492-518).
PipeFields(t) == Len(t) > 7
PairError(line, pt_map) ==
  LET t == BeforeComment(line)
  IN FirstError(<<IntFieldError(t, 1), IntFieldError(t, 2),
                  IF IntFieldError(t, 2) = "" THEN PtError(t, 1, pt_map) ELSE "",
                  IF IntFieldError(t, 2) = "" THEN PtError(t, 2, pt_map) ELSE "",
                  FloatFieldError(t, 3), FloatFieldError(t, 4), FloatFieldError(t, 5),
                  IF PipeFields(t)
                    THEN FirstError(<<FloatFieldError(t, 6), FloatFieldError(t, 7),
                                      FloatFieldError(t, 8)>>)
                    ELSE "">>)

\* The exception the n records from line position pos on raise, "" if none:
\* the first record that is missing or does not decode decides.
RecordsError(c, pos, n, LineError(_, _)) ==
  LET bad == {i \in 0..(n - 1) :
                \/ pos + i >= Len(c.lines)
                \/ LineError(c.lines[pos + i + 1], c.pt_map) # ""}
  IN IF bad = {} THEN ""
     ELSE LET i == CHOOSE m \in bad : \A k \in bad : m <= k
          IN IF pos + i >= Len(c.lines) THEN "IndexError"
             ELSE LineError(c.lines[pos + i + 1], c.pt_map)

\* pt_data[1] + 1 of the point the token names.
NodeId(c, tok) == DictGet(c.pt_map, IntOf(tok)).idx + 1
Count(n) == IF n > 0 THEN n ELSE 0
\* The ids of the n node lines from pos on, field j of each.
NodeIds(c, pos, n, j) == [i \in 1..Count(n) |-> NodeId(c, c.lines[pos + i][j])]

\* One row of the levee table from a levee outflow record (lines 460-468) ...
OutflowRow(c, t) ==
  [node1 |-> NodeId(c, t[1]), node2 |-> UNINITIALIZED_COMP_ID, height |-> FloatOf(t[2]),
   sub_coef |-> 0, super_coef |-> FloatOf(t[3]), pipe_on |-> 0, pipe_z |-> 0,
   pipe_diameter |-> 0, pipe_coef |-> 0]
\* ... and from a levee pair record (lines 492-518, 524-532).
PipeOn(t) == PipeFields(t) /\ FloatOf(t[6]) < PipeNull
PairRow(c, line) ==
  LET t == BeforeComment(line)
  IN [node1 |-> NodeId(c, t[1]), node2 |-> NodeId(c, t[2]), height |-> FloatOf(t[3]),
      sub_coef |-> FloatOf(t[4]), super_coef |-> FloatOf(t[5]),
      pipe_on |-> IF PipeOn(t) THEN 1 ELSE 0,
      pipe_z |-> IF PipeFields(t) THEN FloatOf(t[6]) ELSE 0,
      pipe_coef |-> IF PipeFields(t) THEN FloatOf(t[7]) ELSE 0,
      pipe_diameter |-> IF PipeFields(t) THEN FloatOf(t[8]) ELSE 0]
\* The display lines of the pipes of the n records from pos on: the two
\* points of every record whose pipe is on.
RECURSIVE PipeLocs(_, _, _)
PipeLocs(c, pos, n) ==
  IF n <= 0 THEN << >>
  ELSE LET row == PairRow(c, c.lines[pos + n])
       IN PipeLocs(c, pos, n - 1) \o
          (IF row.pipe_on = 1 THEN <<<<row.node1, row.node2>>>> ELSE << >>)

\* add_bc_atts() and the four appends of one nodestring.
AddNodestring(c, comp_id, partner, start, count) ==
  [c EXCEPT !.comp_id_data = Append(@, comp_id),
            !.partner_id_data = Append(@, partner),
            !.nodes_start_idx_data = Append(@, start),
            !.node_count_data = Append(@, count)]
NewCompId(c) == Len(c.arc_types)

\* An arc of node lines only (ocean 254-276, simple land 330-343, generic
\* 354-380), its header read: n node lines from line position pos on.
SimpleArc(c, pos, n, type) ==
  LET ids == NodeIds(c, pos, n, 1)
      row == AddNodestring(c, NewCompId(c), UNINITIALIZED_COMP_ID, Len(c.nodes), n)
  IN [row EXCEPT !.arc_types = Append(@, type),
                 !.nodes = @ \o ids,
                 !.river_boundaries = IF type = "RIVER" THEN @ \o ids ELSE @,
                 !.current_line = pos + Count(n),
                 !.arcs_left = @ - 1]

\* A levee outflow arc (lines 316-319, 434-468).
OutflowArc(c, pos, n) ==
  LET row == AddNodestring(c, NewCompId(c), UNINITIALIZED_COMP_ID, Len(c.nodes), n)
  IN [row EXCEPT !.arc_types = Append(@, "LEVEE_OUTFLOW"),
                 !.nodes = @ \o NodeIds(c, pos, n, 1),
                 !.levee_coords = @ \o [i \in 1..Count(n) |-> NewCompId(c)],
                 !.levee_data = @ \o [i \in 1..Count(n) |-> OutflowRow(c, c.lines[pos + i])],
                 !.current_line = pos + Count(n),
                 !.arcs_left = @ - 1]

\* Variant of PairPartners that gives both rows the first row's index.
PairPartnersSame(c) == <<Len(c.partner_id_data), Len(c.partner_id_data)>>
\* partner_id_data.extend([nodestring2_idx, nodestring1_idx]) (lines 326-328)
PairPartners(c) == <<Len(c.partner_id_data) + 1, Len(c.partner_id_data)>>

\* nodes_start_idx_data.append(len(nodes) + num_arc_nodes) (line 324)
PairSecondStart(c, n) == Len(c.nodes) + n

\* A levee pair (lines 320-329, 470-532): two nodestrings of one comp_id.
PairArc(c, pos, n) ==
  LET comp_id == NewCompId(c)
      rows == [i \in 1..Count(n) |-> PairRow(c, c.lines[pos + i])]
      row1 == AddNodestring(c, comp_id, PairPartners(c)[1], Len(c.nodes), n)
      row2 == AddNodestring(row1, comp_id, PairPartners(c)[2], PairSecondStart(c, n), n)
  IN [row2 EXCEPT !.arc_types = Append(@, "LEVEE"),
                  !.nodes = @ \o [i \in 1..Count(n) |-> rows[i].node1]
                              \o [i \in 1..Count(n) |-> rows[i].node2],
                  !.levee_coords = @ \o [i \in 1..Count(n) |-> comp_id],
                  !.levee_data = @ \o rows,
                  !.snap_pipes = @ \o PipeLocs(c, pos, Count(n)),
                  !.current_line = pos + Count(n),
                  !.arcs_left = @ - 1]

\* Lines 248-252: the number of ocean arcs, if the file has a line left.
CovOceanCount ==
  /\ pcC = "start"
  /\ IF cov.current_line < Len(cov.lines)
       THEN LET line_data == cov.lines[cov.current_line + 1]
            IN IF line_data # << >> /\ ~IsInt(line_data[1]) THEN RaiseC("ValueError")
               ELSE /\ cov' = [cov EXCEPT !.current_line = @ + 2,
                                          !.arcs_left = IF line_data # << >>
                                                          THEN IntOf(line_data[1]) ELSE 0]
                    /\ pcC' = "ocean"
                    /\ errC' = errC
       ELSE /\ cov' = [cov EXCEPT !.arcs_left = 0]
            /\ pcC' = "ocean"
            /\ errC' = errC
  /\ UNCHANGED <<mode, varsH, varsB, first_read, vars14, vars13, vars63, varsS>>

\* Lines 254-276: one ocean arc.
CovOceanArc ==
  /\ pcC = "ocean" /\ cov.arcs_left > 0
  /\ IF cov.current_line >= Len(cov.lines) THEN RaiseC("IndexError")
     ELSE LET line_data == cov.lines[cov.current_line + 1]
              pos == cov.current_line + 1
          IN IF IntFieldError(line_data, 1) # "" THEN RaiseC(IntFieldError(line_data, 1))
             ELSE LET n == IntOf(line_data[1])
                      err == RecordsError(cov, pos, n, NodeError)
                  IN IF err # "" THEN RaiseC(err)
                     ELSE /\ cov' = SimpleArc(cov, pos, n, "OCEAN")
                          /\ UNCHANGED <<pcC, errC>>
  /\ UNCHANGED <<mode, varsH, varsB, first_read, vars14, vars13, vars63, varsS>>

\* Lines 286-289: the number of land arcs of the line read, << >> for '' and
\* <<tokens>> for a line of the file (which holds its newline at least).
LandCountOf(line) ==
  IF line = << >> THEN [err |-> "", n |-> 0]
  ELSE IF IntFieldError(line[1], 1) # "" THEN [err |-> IntFieldError(line[1], 1), n |-> 0]
  ELSE [err |-> "", n |-> IntOf(line[1][1])]

\* Lines 277-291: the ocean nodes kept, then the number of land arcs.
CovLandCount ==
  /\ pcC = "ocean" /\ cov.arcs_left <= 0
  /\ LET more == cov.current_line < Len(cov.lines)
         line == IF more THEN <<cov.lines[cov.current_line + 1]>> ELSE << >>
         count == LandCountOf(line)
     IN IF count.err # "" THEN RaiseC(count.err)
        ELSE /\ cov' = [cov EXCEPT !.ocean_boundaries = @ \o cov.nodes,
                                   !.current_line = IF more THEN @ + 2 ELSE @,
                                   !.arcs_left = count.n,
                                   !.read_next_line = TRUE,
                                   !.line = << >>]
             /\ pcC' = "land"
             /\ errC' = errC
  /\ UNCHANGED <<mode, varsH, varsB, first_read, vars14, vars13, vars63, varsS>>

\* The break of the loop over the land arcs (lines 293-308).
LandBreak(c) == [c EXCEPT !.read_next_line = FALSE, !.arcs_left = 0]

\* Variant of LandEnd that reads the header of the next arc all the same.
LandEndRaises == RaiseC("IndexError")
\* Lines 293-295: the file ends where a land arc is expected.
LandEnd ==
  /\ cov' = LandBreak(cov)
  /\ UNCHANGED <<pcC, errC>>

\* Lines 292-343: one land arc, or the break that ends the section.
CovLandArc ==
  /\ pcC = "land" /\ cov.arcs_left > 0
  /\ IF cov.current_line >= Len(cov.lines) THEN LandEnd
     ELSE LET line_data == cov.lines[cov.current_line + 1]
              pos == cov.current_line + 1
              c == [cov EXCEPT !.line = <<line_data>>, !.current_line = pos]
          IN IF Len(line_data) < 1 THEN RaiseC("IndexError")
             ELSE IF ~IsInt(line_data[1]) THEN cov' = LandBreak(c) /\ UNCHANGED <<pcC, errC>>
             ELSE IF Len(line_data) < 2 THEN RaiseC("IndexError")
             ELSE IF ~IsInt(line_data[2]) THEN cov' = LandBreak(c) /\ UNCHANGED <<pcC, errC>>
             ELSE LET n == IntOf(line_data[1])
                      ib_type == IntOf(line_data[2])
                      err == IF ib_type % 10 = 3 THEN RecordsError(c, pos, n, OutflowError)
                             ELSE IF ib_type % 10 \in {4, 5}
                               THEN RecordsError(c, pos, n, PairError)
                             ELSE RecordsError(c, pos, n, NodeError)
                  IN IF err # "" THEN RaiseC(err)
                     ELSE /\ cov' = IF ib_type % 10 = 3 THEN OutflowArc(c, pos, n)
                                    ELSE IF ib_type % 10 \in {4, 5} THEN PairArc(c, pos, n)
                                    ELSE SimpleArc(c, pos, n, BcType(ib_type))
                          /\ UNCHANGED <<pcC, errC>>
  /\ UNCHANGED <<mode, varsH, varsB, first_read, vars14, vars13, vars63, varsS>>

\* Lines 345-353: the number of generic arcs, from the next line if the land
\* section ended in order, else from the line the land section stopped at.
CovGenericCount ==
  /\ pcC = "land" /\ cov.arcs_left <= 0
  /\ LET more == cov.read_next_line /\ cov.current_line < Len(cov.lines)
         line == IF more THEN <<cov.lines[cov.current_line + 1]>> ELSE cov.line
         line_data == IF line = << >> THEN << >> ELSE line[1]
     IN IF line_data # << >> /\ ~IsInt(line_data[1]) THEN RaiseC("ValueError")
        ELSE /\ cov' = [cov EXCEPT !.line = line,
                                   !.current_line = IF more THEN @ + 2 ELSE @ + 1,
                                   !.arcs_left = IF line_data # << >>
                                                   THEN IntOf(line_data[1]) ELSE 0]
             /\ pcC' = "generic"
             /\ errC' = errC
  /\ UNCHANGED <<mode, varsH, varsB, first_read, vars14, vars13, vars63, varsS>>

\* Lines 354-380: one generic arc, or the break at the end of the file.
CovGenericArc ==
  /\ pcC = "generic" /\ cov.arcs_left > 0
  /\ IF cov.current_line >= Len(cov.lines)
       THEN /\ cov' = [cov EXCEPT !.arcs_left = 0]
            /\ UNCHANGED <<pcC, errC>>
     ELSE LET line_data == cov.lines[cov.current_line + 1]
              pos == cov.current_line + 1
              c == [cov EXCEPT !.line = <<line_data>>, !.current_line = pos]
          IN IF IntFieldError(line_data, 1) # "" THEN RaiseC(IntFieldError(line_data, 1))
             ELSE LET n == IntOf(line_data[1])
                      err == RecordsError(c, pos, n, NodeError)
                  IN IF err # "" THEN RaiseC(err)
                     ELSE /\ cov' = SimpleArc(c, pos, n, "UNASSIGNED")
                          /\ UNCHANGED <<pcC, errC>>
  /\ UNCHANGED <<mode, varsH, varsB, first_read, vars14, vars13, vars63, varsS>>

\* Lines 382-414: the datasets of the mapped component and the pipe lines of
\* its display.
CovCommit ==
  /\ pcC = "generic" /\ cov.arcs_left <= 0
  /\ cov' = [cov EXCEPT !.mapped_data =
               <<[nodestrings |-> [comp_id |-> cov.comp_id_data,
                                   partner_id |-> cov.partner_id_data,
                                   nodes_start_idx |-> cov.nodes_start_idx_data,
                                   node_count |-> cov.node_count_data],
                  nodes |-> cov.nodes,
                  levees |-> [rows |-> cov.levee_data, comp_id |-> cov.levee_coords],
                  pipe_lines |-> cov.snap_pipes]>>]
  /\ pcC' = "done"
  /\ errC' = errC
  /\ UNCHANGED <<mode, varsH, varsB, first_read, vars14, vars13, vars63, varsS>>

NextC ==
  \/ CovOceanCount
  \/ CovOceanArc
  \/ CovLandCount
  \/ CovLandArc
  \/ CovGenericCount
  \/ CovGenericArc
  \/ CovCommit

\* ---- fort.14 boundary sections
MaxPairNodes == 2  \* records of a generated levee pair
\* The mesh the sections belong to: two nodes, with the ids 2 and 3 in the file.
CovPtMap == <<[k |-> 2, v |-> [idx |-> 0]], [k |-> 3, v |-> [idx |-> 1]]>>
\* A section's two leading lines: the number of arcs (a blank line for
\* << >>) and the total number of nodes.
Counts(line) == <<line, <<"0">>>>
OceanArc == <<<<"1">>, <<"3">>>>
MainlandArc == <<<<"1", "0">>, <<"3">>>>
RiverArc == <<<<"2", "22">>, <<"2">>, <<"3">>>>
OutflowLandArc == <<<<"1", "3">>, <<"2", "1.0", "0.5">>>>
GenericArc == <<<<"1">>, <<"2">>>>
\* Records of a levee pair: five data tokens, then nothing, or a comment of
\* one to three words, or pipe fields (in part, in full, with the null height
\* 100, with a comment behind or glued to them).
PairData == <<"2", "3", "1.0", "1.5", "0.5">>
CommentWords == <<"!", "pipe", "0.5">>
PairRecords ==
  {PairData}
  \cup {PairData \o SubSeq(CommentWords, 1, k) : k \in 1..Len(CommentWords)}
  \cup {PairData \o <<"!0.5", "0.5", "0.3">>,
        PairData \o <<"0.5", "0.5">>,
        PairData \o <<"0.5", "0.5", "!", "0.3">>,
        PairData \o <<"0.5", "0.5", "0.3">>,
        PairData \o <<"100", "0.5", "0.3">>,
        PairData \o <<"-1", "0.5", "0.3", "!", "low", "pipe">>,
        PairData \o <<"0.5", "0.5", "0.3!x", "y">>}
LeveePair(records) == <<<<ToString(Len(records)), "24">>>> \o records
Section(arcs) == Counts(<<ToString(Len(arcs))>>) \o Flatten(arcs)

\* A levee pair between any mix of other arcs.
MixedSections ==
  {Section(ocean) \o Section(before \o <<LeveePair(<<PairData>>)>> \o after) \o Section(generic) :
     ocean \in {<< >>, <<OceanArc>>},
     before \in {<< >>, <<MainlandArc>>, <<OutflowLandArc>>},
     after \in {<< >>, <<RiverArc>>, <<LeveePair(<<PairData \o <<"0.5", "0.5", "0.3">>>>)>>},
     generic \in {<< >>, <<GenericArc>>}}
\* One levee pair of each list of records.
PairSections ==
  {Section(<< >>) \o Section(<<LeveePair(r)>>) \o Section(<< >>) :
     r \in SeqsUpTo(PairRecords, MaxPairNodes)}
\* Files that end early: after the element table, after a section, after an
\* arc, inside an arc.
TruncatedSections ==
  Prefixes({Section(<<OceanArc>>)
              \o Section(<<MainlandArc, LeveePair(<<PairData>>), OutflowLandArc>>)
              \o Section(<<GenericArc>>),
            Section(<< >>) \o Counts(<<"2">>) \o RiverArc,
            Section(<< >>) \o Section(<< >>) \o Counts(<<"2">>) \o GenericArc})
\* A blank line where a section's number of arcs is expected.
BlankCountSections ==
  {ocean \o land \o generic :
     ocean \in {Counts(<< >>), Section(<< >>)},
     land \in {Counts(<< >>), Section(<< >>), Section(<<MainlandArc>>)},
     generic \in {Counts(<< >>), Section(<< >>), Section(<<GenericArc>>)}}
\* Headers that do not decode, arcs of no node or of a negative number of
\* nodes, nodes the mesh does not have.
OddSections ==
  {Section(<< >>) \o Section(<< >>) \o Counts(<<"2">>) \o <<<<"-1">>>> \o GenericArc,
   Section(<< >>) \o Counts(<<"2">>) \o <<<<"-1", "0">>>> \o MainlandArc \o Section(<< >>),
   Section(<< >>) \o Counts(<<"2">>) \o <<<<"-1", "24">>>> \o MainlandArc \o Section(<< >>),
   Counts(<<"-1">>) \o Section(<<MainlandArc>>) \o Section(<< >>),
   Section(<< >>) \o Section(<<<<<<"0", "3">>>>, <<<<"0", "24">>>>>>) \o Section(<<<<<<"0">>>>>>),
   Section(<< >>) \o Counts(<<"1">>) \o <<<<"1", "x">>>> \o <<<<"0">>>> \o GenericArc,
   Section(<< >>) \o Counts(<<"1">>) \o <<<<"x", "0">>>> \o Section(<< >>),
   Section(<< >>) \o Counts(<<"1">>) \o <<<<"1">>>> \o Section(<< >>),
   Counts(<<"x">>), Section(<< >>) \o Counts(<<"x">>),
   Section(<<<<<<"1">>, <<"4">>>>>>),
   Section(<<<<<<"x">>, <<"2">>>>>>),
   Section(<< >>) \o Section(<<<<<<"1", "0">>, <<"1">>>>>>),
   Section(<< >>) \o Section(<<<<<<"1", "3">>, <<"2", "1.0">>>>>>),
   Section(<< >>) \o Section(<<<<<<"1", "24">>, <<"2", "3", "1.0", "x", "0.5">>>>>>),
   Section(<< >>) \o Section(<<<<<<"1", "24">>, <<"2", "4", "1.0", "1.0", "0.5">>>>>>),
   Section(<< >>) \o Section(<< >>) \o Section(<<<<<<"1">>, << >>>>>>)}
CoverageFiles ==
  MixedSections \cup PairSections \cup TruncatedSections \cup BlankCountSections
  \cup OddSections

IdleC ==
  /\ cov = CovInit(<< >>, << >>)
  /\ pcC = "idle"
  /\ errC = ""

(* ============================ ToolboxHistory =========================== *)
\* ToolboxHistory.__init__: model is the rows of the QStandardItemModel, a
\* date item each with its children.
HistoryInit == [history |-> << >>, model |-> << >>]

\* get_item_description(index)
ItemDescription(item) == item.name \o " " \o item.date \o " " \o item.time

\* _add_line_item(text, data): a QStandardItem with its text and its data.
LineItem(text, data) == [text |-> text, data |-> data, children |-> << >>]

\* _get_date_item(model, date): the row of the first date item of that text,
\* 0 if the model has none.
DateRow(model, date) ==
  IF \E r \in 1..Len(model) : model[r].text = date
    THEN CHOOSE r \in 1..Len(model) :
           model[r].text = date /\ \A q \in 1..(r - 1) : model[q].text # date
    ELSE 0

\* _add_to_model(history_index) for an item without arguments and output: the
\* notes item, with its "Input:" child, goes under the date item of its date,
\* which is appended if the model has none.
AddToModel(model, item) ==
  LET notes == [LineItem(item.notes, item.history_uuid)
                  EXCEPT !.children = <<LineItem("Input:", item.history_uuid)>>]
      rows == IF DateRow(model, item.date) = 0
                THEN Append(model, LineItem(item.date, ""))
                ELSE model
      r == DateRow(rows, item.date)
  IN [rows EXCEPT ![r].children = Append(@, notes)]

\* get_history_index_from_uuid(history_uuid): 0 for None, else counted from 1.
HistoryIndexFromUuid(history, history_uuid) ==
  IF \E i \in 1..Len(history) : history[i].history_uuid = history_uuid
    THEN CHOOSE i \in 1..Len(history) :
           /\ history[i].history_uuid = history_uuid
           /\ \A j \in 1..(i - 1) : history[j].history_uuid # history_uuid
    ELSE 0

RemoveAt(s, i) == SubSeq(s, 1, i - 1) \o SubSeq(s, i + 1, Len(s))

\* compare_item.data == history_uuid (line 102): data is the accessor method
\* of QStandardItem, no attribute holding the uuid, and a method equals no
\* string.
DataIs(compare_item, history_uuid) == FALSE

\* The loops of delete_item (lines 97-106) from row on: under each date item
\* the first child found to be the run is removed, and a date item left
\* without children is removed while the row counter runs on.
RECURSIVE DeleteFromModel(_, _, _, _)
DeleteFromModel(model, row, row_count, history_uuid) ==
  IF row > row_count THEN model
  ELSE IF row > Len(model) THEN DeleteFromModel(model, row + 1, row_count, history_uuid)
  ELSE LET date_item == model[row]
           found == {d \in 1..Len(date_item.children) :
                       DataIs(date_item.children[d], history_uuid)}
           kept == IF found = {} THEN date_item.children
                   ELSE RemoveAt(date_item.children,
                                 CHOOSE d \in found : \A e \in found : d <= e)
           after == IF Len(kept) = 0 THEN RemoveAt(model, row)
                    ELSE [model EXCEPT ![row].children = kept]
       IN DeleteFromModel(after, row + 1, row_count, history_uuid)

\* ---- runs
MaxHistory == 3    \* runs added to a ToolboxHistory
Uuids == {"u1", "u2", "u3"}
Dates == {"2024-01-01", "2024-01-02"}
\* The JSON of a run as the tool runner hands it to add_item: without notes.
HistoryItems ==
  {[history_uuid |-> u, date |-> d, time |-> "12:00", name |-> "Tool"] : u \in Uuids, d \in Dates}

\* The runs the model shows: the data of the children of its date items.
ModelRuns(model) == Flatten([r \in 1..Len(model) |->
                              [d \in 1..Len(model[r].children) |-> model[r].children[d].data]])

\* add_item(history) for a run with a new UUID.
HistAddItem ==
  /\ mode = "history"
  /\ Len(hist.history) < MaxHistory /\ Len(ModelRuns(hist.model)) < MaxHistory
  /\ \E json \in HistoryItems :
       /\ HistoryIndexFromUuid(hist.history, json.history_uuid) = 0
       /\ LET new_item == [history_uuid |-> json.history_uuid, date |-> json.date,
                           time |-> json.time, name |-> json.name,
                           notes |-> ItemDescription(json)]
          IN hist' = [history |-> Append(hist.history, new_item),
                      model |-> AddToModel(hist.model, new_item)]
  /\ UNCHANGED <<mode, varsC, varsB, first_read, vars14, vars13, vars63, varsS>>

\* delete_item(history_uuid)
HistDeleteItem ==
  /\ mode = "history"
  /\ \E history_uuid \in Uuids :
       LET index == HistoryIndexFromUuid(hist.history, history_uuid)
       IN hist' = IF index = 0 THEN hist
                  ELSE [history |-> RemoveAt(hist.history, index),
                        model |-> DeleteFromModel(hist.model, 1, Len(hist.model),
                                                  history_uuid)]
  /\ UNCHANGED <<mode, varsC, varsB, first_read, vars14, vars13, vars63, varsS>>

NextH == HistAddItem \/ HistDeleteItem

IdleH == hist = HistoryInit

Idle14 ==
  /\ file14 = Missing
  /\ f14 = Fort14Init
  /\ cell_stream = << >>
  /\ pc14 = "idle"
  /\ err14 = ""
  /\ ret14 = << >>
Idle13 ==
  /\ file13 = Missing
  /\ f13 = Fort13Init(0)
  /\ fs = NoHandle
  /\ att_i = 0
  /\ att_name_line = << >>
  /\ log13 = << >>
  /\ pc13 = "idle"
  /\ err13 = ""
  /\ prev13 = << >>

Idle63 ==
  /\ file63 = [time |-> << >>, zeta |-> << >>]
  /\ f63 = Fort63Init(0)
  /\ pc63 = "idle"
  /\ err63 = ""
IdleS ==
  /\ fileS = [kind |-> "none"]
  /\ rdr = SolInit("")
  /\ pcS = "idle"
  /\ errS = ""

IdleB ==
  /\ batch = BatchInit(<< >>)
  /\ pcB = "idle"
  /\ errB = ""
  /\ first_read = << >>
  /\ IdleC /\ IdleH

\* A Fort14Reader constructed on any of the fort.14 files.
Init14 ==
  /\ mode = "f14"
  /\ file14 \in Fort14Files
  /\ f14 = Fort14Init
  /\ cell_stream = << >>
  /\ pc14 = "start"
  /\ err14 = ""
  /\ ret14 = << >>
  /\ Idle13
  /\ Idle63 /\ IdleS /\ IdleB

\* A Fort13Reader constructed on any of the fort.13 files for any geometry size.
Init13 ==
  /\ mode = "f13"
  /\ Idle14
  /\ \E in \in Fort13Inputs :
       /\ file13 = [exists |-> in.exists, lines |-> in.lines]
       /\ f13 = Fort13Init(in.geom)
  /\ fs = NoHandle
  /\ att_i = 0
  /\ att_name_line = << >>
  /\ log13 = << >>
  /\ pc13 = "start"
  /\ err13 = ""
  /\ prev13 = << >>
  /\ Idle63 /\ IdleS /\ IdleB

\* A Fort13Reader on a file that will be read a second time with empty lines.
Init13Again ==
  /\ mode = "f13again"
  /\ Idle14
  /\ \E in \in AgainInputs13 :
       /\ file13 = [exists |-> in.exists, lines |-> in.lines]
       /\ f13 = Fort13Init(in.geom)
  /\ fs = NoHandle
  /\ att_i = 0
  /\ att_name_line = << >>
  /\ log13 = << >>
  /\ pc13 = "start"
  /\ err13 = ""
  /\ prev13 = << >>
  /\ Idle63 /\ IdleS /\ IdleB

\* The two tools run one after the other on a mesh and its attribute file.
InitTool ==
  /\ mode = "tool"
  /\ file14 \in ToolMeshes
  /\ f14 = Fort14Init
  /\ cell_stream = << >>
  /\ pc14 = "start"
  /\ err14 = ""
  /\ ret14 = << >>
  /\ file13 \in ToolAttFiles
  /\ f13 = Fort13Init(0)
  /\ fs = NoHandle
  /\ att_i = 0
  /\ att_name_line = << >>
  /\ log13 = << >>
  /\ pc13 = "idle"
  /\ err13 = ""
  /\ prev13 = << >>
  /\ Idle63 /\ IdleS /\ IdleB

\* A Fort63Reader constructed on any of the fort.63.nc files for any
\* geometry size.
Init63 ==
  /\ mode = "f63"
  /\ Idle14 /\ Idle13 /\ IdleS /\ IdleB
  /\ file63 \in Fort63Files
  /\ f63 \in {Fort63Init(geom) : geom \in 0..MaxNodes}
  /\ pc63 = "start"
  /\ err63 = ""

\* An ADCIRCSolutionReader about to run the method for a solution file.
InitS ==
  /\ mode = "sol"
  /\ Idle14 /\ Idle13 /\ Idle63 /\ IdleB
  /\ fileS \in SolutionFiles
  /\ rdr = SolInit(IF fileS.kind \in {"ascii_max", "nc_max"} THEN "Max eta" ELSE "eta")
  /\ pcS = "start"
  /\ errS = ""

\* An ADCIRCSolutionReader constructed on a list of solution files.
InitB ==
  /\ mode = "batch"
  /\ Idle14 /\ Idle13 /\ Idle63 /\ IdleS
  /\ batch \in {BatchInit(l) : l \in Batches}
  /\ pcB = "loop"
  /\ errB = ""
  /\ first_read = << >>
  /\ IdleC /\ IdleH

\* A Fort14Reader whose read() will be called twice.
Init14Twice ==
  /\ mode = "f14twice"
  /\ file14 \in TwiceMeshes
  /\ f14 = Fort14Init
  /\ cell_stream = << >>
  /\ pc14 = "start"
  /\ err14 = ""
  /\ ret14 = << >>
  /\ Idle13
  /\ Idle63 /\ IdleS /\ IdleB
\* A Fort13Reader whose read() will be called twice.
Init13Twice ==
  /\ mode = "f13twice"
  /\ Idle14
  /\ \E in \in AgainInputs13 :
       /\ file13 = [exists |-> in.exists, lines |-> in.lines]
       /\ f13 = Fort13Init(in.geom)
  /\ fs = NoHandle
  /\ att_i = 0
  /\ att_name_line = << >>
  /\ log13 = << >>
  /\ pc13 = "start"
  /\ err13 = ""
  /\ prev13 = << >>
  /\ Idle63 /\ IdleS /\ IdleB

\* A Fort14Reader of the import readers about to read the boundary sections.
InitCov ==
  /\ mode = "cov"
  /\ Idle14 /\ Idle13 /\ Idle63 /\ IdleS
  /\ batch = BatchInit(<< >>) /\ pcB = "idle" /\ errB = "" /\ first_read = << >>
  /\ cov \in {CovInit(l, CovPtMap) : l \in CoverageFiles}
  /\ pcC = "start"
  /\ errC = ""
  /\ IdleH
\* A new ToolboxHistory.
InitH ==
  /\ mode = "history"
  /\ Idle14 /\ Idle13 /\ Idle63 /\ IdleS
  /\ batch = BatchInit(<< >>) /\ pcB = "idle" /\ errB = "" /\ first_read = << >>
  /\ IdleC
  /\ hist = HistoryInit

Init ==
  \/ Init14 \/ Init13 \/ InitTool \/ Init13Again \/ Init63 \/ InitS \/ InitB
  \/ Init14Twice \/ Init13Twice \/ InitCov \/ InitH
Next ==
  \/ Next14 \/ Next13 \/ ToolGetGridInfo \/ F13ReadAgainWithBlanks \/ Next63 \/ NextS
  \/ NextB \/ F14ReadAgain \/ F13ReadAgain \/ NextC \/ NextH

Spec == Init /\ [][Next]_vars
SpecF14 == Init14 /\ [][Next14]_vars
SpecF13 == Init13 /\ [][Next13]_vars
SpecF63 == Init63 /\ [][Next63]_vars
SpecS == InitS /\ [][NextS]_vars
SpecNc == (Init63 \/ InitS) /\ [][Next63 \/ NextS]_vars
SpecB == InitB /\ [][NextB \/ NextS]_vars
SpecTwice ==
  (Init14Twice \/ Init13Twice) /\ [][Next14 \/ Next13 \/ F14ReadAgain \/ F13ReadAgain]_vars
\* read() is a sequential program: it keeps running while it has a step to take.
FairF13 == Init13 /\ [][Next13]_vars /\ WF_vars(Next13)
SpecF13Again == Init13Again /\ [][Next13 \/ F13ReadAgainWithBlanks]_vars
SpecCov == InitCov /\ [][NextC]_vars
SpecH == InitH /\ [][NextH]_vars

(* ============================== claims ================================ *)
\* ---- what the files say, read off the text independently of the readers
Max0(i) == IF i > 0 THEN i ELSE 0

\* fort.14: the header line decodes as two integers.
HeaderDecodes14 ==
  /\ Len(file14.lines) >= 2
  /\ Len(file14.lines[2]) >= 2
  /\ IsInt(file14.lines[2][1])
  /\ IsInt(file14.lines[2][2])
DeclaredCells14 == IntOf(file14.lines[2][1])
DeclaredNodes14 == IntOf(file14.lines[2][2])
\* The i-th node line and the c-th cell line of the file (1-based).
FileNodeLine(i) == file14.lines[2 + i]
FileCellLine(c) == file14.lines[2 + Max0(DeclaredNodes14) + c]
\* The point ids the node table defines.
FileNodeIds ==
  {IntOf(FileNodeLine(i)[1]) :
     i \in {j \in 1..Max0(DeclaredNodes14) :
              2 + j <= Len(file14.lines) /\ Len(FileNodeLine(j)) >= 1 /\ IsInt(FileNodeLine(j)[1])}}
DistinctNodeIds ==
  \A i, j \in 1..Max0(DeclaredNodes14) :
    i # j => IntOf(FileNodeLine(i)[1]) # IntOf(FileNodeLine(j)[1])
\* The 0-based read-order position of point id `id` in the node table.
ReadOrderIndex(id) ==
  (CHOOSE i \in 1..Max0(DeclaredNodes14) : IntOf(FileNodeLine(i)[1]) = id) - 1
\* The cell lines that name a point id the node table does not define.
DanglingCells ==
  {c \in 1..Max0(DeclaredCells14) :
     /\ 2 + Max0(DeclaredNodes14) + c <= Len(file14.lines)
     /\ Len(FileCellLine(c)) >= 5
     /\ \E j \in 3..5 : IsInt(FileCellLine(c)[j]) /\ IntOf(FileCellLine(c)[j]) \notin FileNodeIds}
FirstDanglingCell == CHOOSE c \in DanglingCells : \A d \in DanglingCells : c <= d

\* fort.13: the two count lines of the header decode as integers.
HeaderDecodes13 ==
  /\ Len(file13.lines) >= 3
  /\ Len(file13.lines[2]) >= 1 /\ IsInt(file13.lines[2][1])
  /\ Len(file13.lines[3]) >= 1 /\ IsInt(file13.lines[3][1])
DeclaredNodes13 == IntOf(file13.lines[2][1])
DeclaredAtts13 == IntOf(file13.lines[3][1])
\* read() is past its header validation.
PastHeader13 == pc13 \notin {"idle", "start", "header"}
\* The value blocks of a file that was read to its end: the name and the node
\* ids of the exception records of each, from 1-based line p on.
RECURSIVE ValueBlocksFrom(_, _)
ValueBlocksFrom(p, left) ==
  IF left <= 0 THEN << >>
  ELSE IF Len(file13.lines[p]) = 0 THEN ValueBlocksFrom(p + 1, left)
  ELSE LET cnt == Max0(IntOf(file13.lines[p + 1][1]))
       IN <<[name |-> file13.lines[p][1],
             ids |-> {IntOf(file13.lines[q][1]) : q \in (p + 2)..(p + 1 + cnt)},
             recs |-> [r \in 1..cnt |-> file13.lines[p + 1 + r]]]>>
          \o ValueBlocksFrom(p + 2 + cnt, left - 1)
ValueBlocks == ValueBlocksFrom(4 + 4 * Max0(DeclaredAtts13), DeclaredAtts13)
\* How many of the blocks before block j carry the same attribute name.
EarlierSameName(blocks, j) == Cardinality({i \in 1..(j - 1) : blocks[i].name = blocks[j].name})

\* ---- C1 (stated as claimed; the reader breaks it)
\* C1: whenever Fort14Reader.read returns, the mesh has exactly
\* header.node_count points and header.cell_count cells and every point
\* index of the cell stream lies in 0..point_count-1, whatever point ids the
\* node lines carry (duplicates included).
C1_MeshMatchesHeader ==
  (pc14 = "done" /\ DeclaredNodes14 >= 0 /\ DeclaredCells14 >= 0) =>
    LET g == ret14[1].co_grid[1]
    IN /\ Len(g.points) = DeclaredNodes14
       /\ Len(g.cell_stream) = 5 * DeclaredCells14
       /\ \A c \in 0..(DeclaredCells14 - 1) : \A j \in 3..5 :
            g.cell_stream[5 * c + j] \in 0..(Len(g.points) - 1)

\* ---- C2 (stated as claimed; the reader breaks it)
\* C2: after a Fort13Reader.read that returns normally every component array
\* of every attribute has node_count entries, and every index i whose node id
\* i+1 is not in that attribute's exception records holds the declared
\* default of the component, for any integer node ids in the records.
C2_UnlistedNodesKeepDefault ==
  pc13 = "done" =>
    \A j \in 1..Len(ValueBlocks) :
      LET b == ValueBlocks[j]
          defs == DictGet(f13.att_defaults, b.name)
          first == Len(defs) * EarlierSameName(ValueBlocks, j)
      IN b.name # GEOID =>
           \A k \in 1..Len(defs) :
             LET vals == DictGet(f13.att_dsets, b.name)[first + k].values[1]
             IN /\ Len(vals) = DeclaredNodes13
                /\ \A i \in 1..DeclaredNodes13 : i \notin b.ids => vals[i] = defs[k]

\* ---- C3 (stated as claimed; the reader breaks it)
\* C3: an exception record for file node id k is written to the 0-based
\* index the mesh reader gave point id k (its read-order position in the
\* node table), also when the mesh ids have gaps or are not monotone.
C3_ExceptionGoesToMeshIndex ==
  (mode = "tool" /\ pc13 = "done") =>
    LET rec == ValueBlocks[1].recs[1]
        k == IntOf(rec[1])
        vals == DictGet(f13.att_dsets, ValueBlocks[1].name)[1].values[1]
    IN DictHas(f14.pt_map, k) => vals[DictGet(f14.pt_map, k).idx + 1] = FloatOf(rec[2])

\* ---- C4 (stated as claimed; the reader breaks it)
\* C4: Fort13Reader.read terminates, by returning or raising, on every
\* finite input file.
C4_ReadTerminates == <>(pc13 \in {"done", "raised"})

\* ---- C5 (stated as claimed; the reader breaks it)
\* C5: with a node count that is positive and equals the geometry's, read
\* raises NoAttributes whenever the declared attribute count is not greater
\* than zero, and never returns successfully.
C5_NoAttributesRaises ==
  (HeaderDecodes13 /\ PastHeader13 /\ DeclaredNodes13 > 0
     /\ DeclaredNodes13 = f13.geom_num_nodes /\ DeclaredAtts13 <= 0) =>
    (pc13 = "raised" /\ err13 = "NoAttributes")

\* ---- C6
\* C6: the header checks run in a fixed order and report one error: a node
\* count of zero or less raises 'Invalid fort.13 file.' even when it equals
\* the geometry node count or the attribute count is zero; otherwise a node
\* count different from the geometry's raises 'Invalid number of nodes.'
\* even when the attribute count is zero.
C6_HeaderCheckOrder ==
  (HeaderDecodes13 /\ PastHeader13) =>
    /\ DeclaredNodes13 <= 0 => (pc13 = "raised" /\ err13 = "InvalidFile")
    /\ (DeclaredNodes13 > 0 /\ DeclaredNodes13 # f13.geom_num_nodes) =>
         (pc13 = "raised" /\ err13 = "NodeCountMismatch")
\* Reached: a zero node count that equals the geometry's, with zero
\* attributes, was reported as an invalid file.
C6_Witness ==
  /\ HeaderDecodes13 /\ PastHeader13
  /\ DeclaredNodes13 = 0 /\ f13.geom_num_nodes = 0 /\ DeclaredAtts13 = 0
  /\ err13 = "InvalidFile"

\* ---- C7 (stated as claimed; the reader breaks it)
\* C7: whenever Fort13Reader.read raises, the reader exposes no partial
\* result: datasets, built_data and nodal_atts are empty.
C7_NoPartialResult ==
  pc13 = "raised" =>
    (f13.datasets = << >> /\ f13.built_data = << >> /\ f13.nodal_atts = << >>)

\* ---- C8
\* C8: when the path is no existing file or the file has size zero, both
\* readers raise 'File not found' before the file is opened and every field
\* keeps its constructor value.
C8_FileNotFoundBeforeOpen ==
  /\ (pc14 \notin {"idle", "start"} /\ (~file14.exists \/ Len(file14.lines) = 0)) =>
       /\ pc14 = "raised" /\ err14 = "FileNotFound"
       /\ f14 = Fort14Init /\ cell_stream = << >> /\ ret14 = << >>
  /\ (pc13 \notin {"idle", "start"} /\ (~file13.exists \/ Len(file13.lines) = 0)) =>
       /\ pc13 = "raised" /\ err13 = "FileNotFound"
       /\ f13 = Fort13Init(f13.geom_num_nodes) /\ fs = NoHandle
       /\ att_name_line = << >> /\ log13 = << >>
\* Reached: a Fort14Reader on an existing file of size zero has raised.
C8_Witness ==
  /\ file14.exists /\ Len(file14.lines) = 0
  /\ pc14 = "raised" /\ err14 = "FileNotFound"

\* ---- C9
\* C9: if a cell line names a point id the node table does not define, read
\* raises instead of skipping the cell: it never gets past that line, returns
\* no (grid, wkt) pair and leaves co_grid None.
C9_UndefinedPointRaises ==
  (HeaderDecodes14 /\ DanglingCells # {}) =>
    /\ pc14 \notin {"build", "wkt", "done"}
    /\ f14.co_grid = << >>
    /\ ret14 = << >>
    /\ f14.current_line > 1 + Max0(DeclaredNodes14) + FirstDanglingCell => pc14 = "raised"
\* Reached: the cell line with the undefined id was read and KeyError raised.
C9_Witness ==
  /\ HeaderDecodes14 /\ DanglingCells # {}
  /\ pc14 = "raised" /\ err14 = "KeyError"
  /\ f14.current_line = 2 + Max0(DeclaredNodes14) + FirstDanglingCell

\* ---- C10
\* C10: with pairwise distinct point ids (any gaps, any order) the i-th node
\* line becomes mesh point i with coordinates (x, y, -z) and each cell's
\* three indices are the read-order positions of the ids on its line, in order.
C10_ReadOrderIndexing ==
  (pc14 = "done" /\ DistinctNodeIds) =>
    LET g == ret14[1].co_grid[1]
    IN /\ Len(g.points) = Max0(DeclaredNodes14)
       /\ \A i \in 1..Max0(DeclaredNodes14) :
            g.points[i] = <<FloatOf(FileNodeLine(i)[2]), FloatOf(FileNodeLine(i)[3]),
                            0 - FloatOf(FileNodeLine(i)[4])>>
       /\ Len(g.cell_stream) = 5 * Max0(DeclaredCells14)
       /\ \A c \in 1..Max0(DeclaredCells14) : \A j \in 3..5 :
            g.cell_stream[5 * (c - 1) + j] = ReadOrderIndex(IntOf(FileCellLine(c)[j]))
\* Reached: a mesh whose ids have a gap and fall, with a cell naming both.
C10_Witness ==
  /\ pc14 = "done" /\ DistinctNodeIds
  /\ DeclaredNodes14 >= 2 /\ DeclaredCells14 >= 1
  /\ IntOf(FileNodeLine(1)[1]) > IntOf(FileNodeLine(2)[1])
  /\ IntOf(FileNodeLine(1)[1]) > DeclaredNodes14
  /\ \E j, k \in 3..5 : FileCellLine(1)[j] # FileCellLine(1)[k]

\* ---- C11
\* C11: a Fort14Reader.read that returns a mesh with points returns the
\* Geographic WKT exactly when every point has x in [-180, 180] and y in
\* [-90, 90] (limits included) and the Local-Meters WKT in every other case;
\* no other tag (such as a Local-Feet one) is ever returned.
C11_WktFromExtents ==
  (pc14 = "done" /\ Len(ret14[1].co_grid[1].points) > 0) =>
    LET pts == ret14[1].co_grid[1].points
        inside == \A i \in 1..Len(pts) :
                    /\ pts[i][1] >= FloatOf("-180") /\ pts[i][1] <= FloatOf("180")
                    /\ pts[i][2] >= FloatOf("-90") /\ pts[i][2] <= FloatOf("90")
    IN /\ ret14[1].wkt = (IF inside THEN GEOGRAPHIC_WKT ELSE LOCAL_METERS_WKT)
       /\ f14.wkt = ret14[1].wkt
\* Reached: a mesh with a point on the limit x = 180, y = -90 was tagged
\* Geographic.
C11_Witness ==
  /\ pc14 = "done"
  /\ \E i \in 1..Len(ret14[1].co_grid[1].points) :
       /\ ret14[1].co_grid[1].points[i][1] = FloatOf("180")
       /\ ret14[1].co_grid[1].points[i][2] = FloatOf("-90")
  /\ ret14[1].wkt = GEOGRAPHIC_WKT

\* ---- C12
\* C12: reading a fort.13 again after any number of empty lines were put
\* before the name lines of its value blocks gives the same result: read
\* returns or raises as before, with the same dataset names in the same order
\* holding the same values, and the same nodal_atts.
C12_BlankLinesChangeNothing ==
  (prev13 # << >> /\ pc13 \in {"done", "raised"}) =>
    /\ Outcome13.returned = prev13[1].returned
    /\ Outcome13.names = prev13[1].names
    /\ Outcome13.values = prev13[1].values
    /\ Outcome13.nodal_atts = prev13[1].nodal_atts
\* Reached: the second read skipped an empty line and returned datasets.
C12_Witness ==
  /\ prev13 # << >> /\ pc13 = "done"
  /\ \E p \in 1..Len(file13.lines) : Len(file13.lines[p]) = 0
  /\ Len(f13.datasets) >= 2

\* ---- C13
\* The number of values on the defaults line of attribute `name` (the last
\* info block of that name), read off the file.
FileComponents(name) ==
  LET as == {a \in 1..Max0(DeclaredAtts13) : file13.lines[4 * a][1] = name}
      last == CHOOSE a \in as : \A b \in as : b <= a
  IN Len(file13.lines[4 * last + 3])
\* The value block that starts at the current position decodes: its count
\* line and every one of its records.
BlockDecodes13 ==
  /\ DictHas(f13.att_defaults, att_name_line[1])
  /\ Len(Line13(fs.pos)) >= 1 /\ IsInt(Line13(fs.pos)[1])
  /\ \A r \in 1..IntOf(Line13(fs.pos)[1]) :
       RecordError(Line13(fs.pos + r), FileComponents(att_name_line[1]), DeclaredNodes13) = ""
\* C13: a value block whose attribute name is not in the display-name table
\* and is not the geoid offset, which never is a dataset (and whose lines
\* decode), does not make read fail: the step logs a warning
\* naming the attribute and adds one dataset per component, named exactly
\* the attribute name when there is one component and "name (i+1)" for the
\* 0-based component i when there are more.
C13_UnknownNameWarnsAndNames ==
  [][(/\ pc13 = "val_body"
      /\ DisplayNames(att_name_line[1]) = << >>
      /\ att_name_line[1] # GEOID
      /\ BlockDecodes13)
     => LET name == att_name_line[1]
            n == FileComponents(name)
            had == IF DictHas(f13.att_dsets, name) THEN Len(DictGet(f13.att_dsets, name)) ELSE 0
        IN /\ pc13' # "raised" /\ err13' = ""
           /\ log13' = Append(log13, name)
           /\ Len(DictGet(f13'.att_dsets, name)) = had + n
           /\ \A i \in 1..n :
                LET expected == IF n = 1 THEN name
                                ELSE name \o " (" \o ToString(i) \o ")"
                IN /\ DictGet(f13'.att_dsets, name)[had + i].name = expected
                   /\ DictHas(f13'.datasets, expected)
                   /\ DictGet(f13'.datasets, expected) = DictGet(f13'.att_dsets, name)[had + i]]_vars
\* Reached: read returned with the datasets of an unknown attribute of one
\* component and of an unknown attribute of two components.
C13_Witness ==
  /\ pc13 = "done"
  /\ log13 # << >>
  /\ \/ DictHas(f13.datasets, "my_att") /\ ~DictHas(f13.datasets, "my_att (1)")
     \/ DictHas(f13.datasets, "my_att (1)") /\ DictHas(f13.datasets, "my_att (2)")

\* ---- C14
\* The dataset names the value blocks call for, in file order: for each block
\* that is not the geoid offset, one name per value of its defaults line.
RECURSIVE ExpectedNames(_)
ExpectedNames(blocks) ==
  IF Len(blocks) = 0 THEN << >>
  ELSE LET name == blocks[1].name
           n == FileComponents(name)
           mine == IF name = GEOID THEN << >>
                   ELSE IF DisplayNames(name) # << >> THEN SubSeq(DisplayNames(name), 1, n)
                   ELSE [i \in 1..n |-> IF n = 1 THEN name
                                        ELSE name \o " (" \o ToString(i) \o ")"]
       IN mine \o ExpectedNames(Tail(blocks))
\* The position at which `name` first occurs in the sequence s.
FirstAt(s, name) == CHOOSE i \in 1..Len(s) : s[i] = name /\ \A j \in 1..(i - 1) : s[j] # name
\* C14: after a read that returned, every attribute other than the geoid
\* offset has contributed one dataset per value of its defaults line for each
\* of its value blocks, and the keys of reader.datasets are the names of these
\* datasets in value-block order and, within an attribute, in component order
\* (a name that occurs twice keeps its first place, as in any dict).
C14_DatasetCountAndOrder ==
  pc13 = "done" =>
    LET expected == ExpectedNames(ValueBlocks)
        keys == [i \in 1..Len(f13.datasets) |-> f13.datasets[i].k]
    IN /\ \A j \in 1..Len(ValueBlocks) :
            LET name == ValueBlocks[j].name
                blocks == Cardinality({i \in 1..Len(ValueBlocks) : ValueBlocks[i].name = name})
            IN IF name = GEOID THEN ~DictHas(f13.att_dsets, name)
               ELSE Len(DictGet(f13.att_dsets, name)) = FileComponents(name) * blocks
       /\ {keys[i] : i \in 1..Len(keys)} = {expected[i] : i \in 1..Len(expected)}
       /\ \A i, j \in 1..Len(keys) :
            i < j => FirstAt(expected, keys[i]) < FirstAt(expected, keys[j])
\* Reached: read returned the two datasets of a bridge pilings attribute
\* after the dataset of another attribute.
C14_Witness ==
  /\ pc13 = "done"
  /\ Len(f13.datasets) = 3
  /\ f13.datasets[2].k = "BK"
  /\ f13.datasets[3].k = "BAlpha"

\* ---- C15
\* The defaults line of the attribute `name` that the reader keeps.
FileDefaults(name) ==
  LET as == {a \in 1..Max0(DeclaredAtts13) : file13.lines[4 * a][1] = name}
      last == CHOOSE a \in as : \A b \in as : b <= a
  IN file13.lines[4 * last + 3]
\* The exception records of the value block at the current position.
BlockRecords13 == [r \in 1..IntOf(Line13(fs.pos)[1]) |-> Line13(fs.pos + r)]
\* The value the block gives node i: that of its last record for node id i,
\* the default without one.
ResolvedValue(i) ==
  LET mine == {r \in 1..Len(BlockRecords13) : BlockRecords13[r][1] = ToString(i)}
  IN IF mine = {} THEN FloatOf(FileDefaults(att_name_line[1])[1])
     ELSE FloatOf(BlockRecords13[CHOOSE r \in mine : \A q \in mine : q <= r][2])
\* The value block at the current position is one of the geoid offset that
\* decodes, with a default and with record ids of nodes of the file.
GeoidBlock13 ==
  /\ pc13 = "val_body"
  /\ att_name_line[1] = GEOID
  /\ BlockDecodes13
  /\ FileComponents(GEOID) >= 1
  /\ \A r \in 1..Len(BlockRecords13) :
       BlockRecords13[r][1] \in {ToString(i) : i \in 1..DeclaredNodes13}
\* The sum of the resolved values of the first component, node after node,
\* divided by the number of nodes of the file.
ResolvedMean ==
  Let(SeqSum([i \in 1..DeclaredNodes13 |-> ResolvedValue(i)]), LAMBDA sum :
    IF DeclaredNodes13 = 0 THEN "nan"
    ELSE IF sum = DblZero THEN DblZero
    ELSE Signed(sum.s, DblDiv(sum.m, sum.e, DeclaredNodes13)))
C16_AsStated ==
  pc63 \in {"done", "raised"} =>
    \/ /\ pc63 = "done"
       /\ f63.dataset_writer # << >>
       /\ \A t \in 1..Len(f63.dataset_writer[1].values) :
            Len(f63.dataset_writer[1].values[t]) = f63.geom_num_nodes
    \/ /\ pc63 = "raised"
       /\ err63 = "ValueError: Incorrect number of values"
       /\ f63.dataset_writer = << >>

\* ---- C17
\* C17 as stated: in the scalar, the vector and the maximum NetCDF decode
\* path every element of the input that is not NaN is emitted as it is, the
\* null value -99999.0 and 0.0 included.
C17_AsStated ==
  /\ pc63 \in {"write", "done"} =>
       \A t \in 1..Len(file63.zeta) : \A n \in 1..Len(file63.zeta[t]) :
         ~file63.zeta[t][n].nan => f63.scalar_data[t][n] = file63.zeta[t][n]
  /\ (pcS = "done" /\ fileS.kind = "nc_vectors" /\ rdr.out # << >>) =>
       \A t \in 1..Len(fileS.x) : \A n \in 1..Len(fileS.x[t]) :
         /\ ~fileS.x[t][n].nan => rdr.out[1].values[t][n][1] = fileS.x[t][n]
         /\ ~fileS.y[t][n].nan => rdr.out[1].values[t][n][2] = fileS.y[t][n]
  /\ (pcS = "done" /\ fileS.kind = "nc_max" /\ rdr.out # << >>) =>
       \A n \in 1..Len(fileS.extreme) :
         /\ ~fileS.extreme[n].nan => rdr.out[1].values[1][n] = fileS.extreme[n]
         /\ ~fileS.extreme_time[n].nan => rdr.out[2].values[1][n] = fileS.extreme_time[n]

\* ---- C18
\* The line at the reader's position is the time line of a sparse scalar
\* timestep that is followed by as many value lines as it announces, each
\* with the id of a node of the file and a value.
SparseScalarStep ==
  /\ pcS = "loop" /\ fileS.kind = "ascii_scalars" /\ rdr.i < rdr.num_ts
  /\ LET t == LineS(rdr.pos)
     IN /\ Len(t) = 4
        /\ IsFloat(t[1]) /\ IsInt(t[3]) /\ IsFloat(t[4])
        /\ \A r \in 1..IntOf(t[3]) :
             LET l == LineS(rdr.pos + r)
             IN /\ Len(l) = 2 /\ IsFloat(l[2])
                /\ l[1] \in {ToString(i) : i \in 1..rdr.num_nodes}
\* C18: the step over a sparse scalar timestep appends one value array of
\* length node_count that holds, at index node_id - 1 (position node_id of
\* the sequence), the value listed for node_id (the last one when the id is
\* listed more than once) and the default at the index of every node id that
\* is not listed.
C18_SparseTimestep ==
  [][SparseScalarStep
     => LET t == LineS(rdr.pos)
            recs == [r \in 1..IntOf(t[3]) |-> LineS(rdr.pos + r)]
            old == rdr.writer[1].values
            new == rdr'.writer[1].values
        IN /\ Len(new) = Len(old) + 1
           /\ \A k \in 1..Len(old) : new[k] = old[k]
           /\ rdr'.writer[1].times = Append(rdr.writer[1].times, FloatOf(t[1]))
           /\ Len(new[Len(new)]) = rdr.num_nodes
           /\ \A i \in 1..rdr.num_nodes :
                LET mine == {r \in 1..Len(recs) : recs[r][1] = ToString(i)}
                IN new[Len(new)][i] =
                     IF mine = {} THEN FloatOf(t[4])
                     ELSE FloatOf(recs[CHOOSE r \in mine : \A q \in mine : q <= r][2])]_vars
\* Reached: the finished dataset of a file of two nodes whose sparse
\* timestep has the default 1.5 and lists 4.0 for node 2.
C18_Witness ==
  /\ pcS = "done" /\ fileS.kind = "ascii_scalars"
  /\ Len(fileS.lines) = 4 /\ Len(fileS.lines[3]) = 4
  /\ rdr.out # << >>
  /\ rdr.out[1].values = <<(<<15, 40>>)>>

\* ---- C19
\* C19 as stated: once an iteration of the timestep loop of read_ascii_scalars
\* or read_ascii_vectors has dropped its timestep because the value block
\* ended early (an iteration is counted but its timestep is not in the
\* writer), no later step appends a timestep, and the finished dataset holds
\* every timestep appended before.
C19_AsStated ==
  [][(/\ fileS.kind \in {"ascii_scalars", "ascii_vectors"}
      /\ pcS \in {"loop", "finish"}
      /\ Len(rdr.writer[1].times) < rdr.i)
     => /\ rdr'.writer[1].times = rdr.writer[1].times
        /\ rdr'.writer[1].values = rdr.writer[1].values
        /\ (pcS' = "done" /\ rdr.writer[1].times # << >>)
             => /\ rdr'.out # << >>
                /\ rdr'.out[Len(rdr'.out)].values = rdr.writer[1].values]_vars

\* ---- C20
\* The file is a complete max file: two counts in the header and two blocks,
\* each a time line and one value line per node.
CompleteMaxFile ==
  /\ fileS.kind = "ascii_max"
  /\ Len(fileS.lines) >= 2
  /\ HeaderErrorS(fileS.lines[2]) = ""
  /\ LET nn == IntOf(fileS.lines[2][2])
     IN /\ nn >= 0
        /\ Len(fileS.lines) >= 2 + 2 * (nn + 1)
        /\ \A b \in 0..1 :
             /\ Len(fileS.lines[3 + b * (nn + 1)]) >= 1
             /\ IsFloat(fileS.lines[3 + b * (nn + 1)][1])
             /\ \A j \in 1..nn :
                  /\ Len(fileS.lines[3 + b * (nn + 1) + j]) >= 2
                  /\ IsFloat(fileS.lines[3 + b * (nn + 1) + j][2])
\* C20: read_ascii_max_scalars on a complete max file hands on exactly two
\* datasets whatever timestep count the header declares: the first under the
\* given name with the values of the first block, the second under that name
\* followed by ' Time' with the values of the second block, each with one
\* timestep.
C20_TwoDatasets ==
  (pcS = "done" /\ CompleteMaxFile) =>
    LET nn == IntOf(fileS.lines[2][2])
    IN /\ Len(rdr.out) = 2
       /\ rdr.out[1].name = "Max eta"
       /\ rdr.out[2].name = "Max eta Time"
       /\ \A b \in 0..1 :
            /\ Len(rdr.out[b + 1].times) = 1
            /\ rdr.out[b + 1].times[1] = FloatOf(fileS.lines[3 + b * (nn + 1)][1])
            /\ rdr.out[b + 1].values =
                 <<[j \in 1..nn |-> FloatOf(fileS.lines[3 + b * (nn + 1) + j][2])]>>
\* Reached: the two datasets of a complete max file of two nodes whose header
\* declares no timestep at all.
C20_Witness ==
  /\ pcS = "done" /\ CompleteMaxFile
  /\ fileS.lines[2] = <<"0", "2">>
  /\ Len(rdr.out) = 2
  /\ rdr.out[1].values = <<(<<20, 30>>)>>
  /\ rdr.out[2].values = <<(<<30, 40>>)>>

\* ---- what a batch says, read off its file list
\* The recording station files: fort.61, fort.62, fort.71 and fort.72, as
\* text or as NetCDF.
StationNames ==
  {"fort." \o n \o ext : n \in {"61", "62", "71", "72"}, ext \in {"", ".nc"}}
\* The positions (0-based) of the files of the first n of the list that
\* exist and are no station files, in list order.
RECURSIVE FilesToRead(_)
FilesToRead(n) ==
  IF n = 0 THEN << >>
  ELSE LET file == batch.filenames[n]
       IN IF file.exists /\ Lower(file.basename) \notin StationNames
            THEN Append(FilesToRead(n - 1), n - 1)
          ELSE FilesToRead(n - 1)
BatchOver == mode = "batch" /\ pcB \in {"done", "raised"}

\* C21 (as stated): when a batch read is over, the files a reader was looked
\* up for are exactly the listed files that exist and are no station files,
\* each once and in list order, whatever happened to the files before them.
C21_AsStated ==
  BatchOver => batch.attempts = FilesToRead(Len(batch.filenames))

\* C22 (as stated): when read() has returned, 'No ADCIRC solution files
\* found' was logged exactly when the batch added no dataset.
C22_AsStated ==
  (mode = "batch" /\ pcB = "done") =>
    ((\E k \in 1..Len(batch.log) : batch.log[k] = "No ADCIRC solution files found")
       <=> Len(rdr.out) = 0)

\* C25 (as stated): once a read operation has returned or raised, every file
\* it opened is closed: the fort.13 text file, the fort.63.nc of a
\* Fort63Reader and the NetCDF files of an ADCIRCSolutionReader.
C25_AsStated ==
  /\ pc13 \in {"done", "raised"} => ~fs.open
  /\ pc63 \in {"done", "raised"} => f63.root_grp # "open"
  /\ pcS \in {"done", "caught", "raised"} =>
       \A k \in 1..Len(rdr.root_grps) : rdr.root_grps[k] # "open"

\* C26 (as stated): a second read() on the same Fort14Reader or Fort13Reader,
\* after a first one that returned and with the file unchanged, ends as the
\* first did: the same mesh and WKT, the same datasets and built_data.
C26_AsStated ==
  /\ (mode = "f14twice" /\ first_read # << >> /\ pc14 \in {"done", "raised"}) =>
       (first_read[1].raised = "" => Outcome14 = first_read[1])
  /\ (mode = "f13twice" /\ first_read # << >> /\ pc13 \in {"done", "raised"}) =>
       (first_read[1].raised = "" => OutcomeTwice13 = first_read[1])

(* ------------- claims about the boundary sections of a fort.14 --------- *)
\* The nodestring datasets _read_coverages() wrote, and the type of row i.
Nodestrings == cov.mapped_data[1].nodestrings
RowType(i) == cov.arc_types[Nodestrings.comp_id[i] + 1]
RowCount == Len(Nodestrings.partner_id)

\* C23: when _read_coverages() has returned, the two nodestring rows of every
\* levee pair name each other as partner (two different rows of one arc) and
\* have the same node_count, and every row of another arc has the
\* uninitialized partner value, whatever arcs stand before and after the pair.
C23_LeveePairSymmetry ==
  (mode = "cov" /\ pcC = "done") =>
    \A i \in 1..RowCount :
      IF RowType(i) = "LEVEE"
        THEN LET p == Nodestrings.partner_id[i] + 1
             IN /\ p \in 1..RowCount /\ p # i
                /\ Nodestrings.partner_id[p] + 1 = i
                /\ Nodestrings.comp_id[p] = Nodestrings.comp_id[i]
                /\ Nodestrings.node_count[p] = Nodestrings.node_count[i]
        ELSE Nodestrings.partner_id[i] = UNINITIALIZED_COMP_ID
\* A levee pair was decoded between an ocean arc and a generic arc, with
\* another land arc before it.
C23_Witness ==
  /\ mode = "cov" /\ pcC = "done"
  /\ RowCount >= 5
  /\ RowType(1) = "OCEAN" /\ RowType(RowCount) = "UNASSIGNED"
  /\ \E i \in 3..(RowCount - 2) : RowType(i) = "LEVEE" /\ RowType(i + 1) = "LEVEE"

\* The file has no line left where the parser stands, and the parser stands
\* after the element table, after the ocean section, after a land arc or the
\* land section, or on its way from there to the end.
AtEndOfFile(c, pc) ==
  /\ c.current_line >= Len(c.lines)
  /\ \/ pc = "start"
     \/ pc = "ocean" /\ c.arcs_left <= 0
     \/ pc = "land" /\ c.read_next_line
     \/ pc = "land" /\ c.arcs_left <= 0 /\ (c.line = << >> \/ IntFieldError(c.line[1], 1) = "")
     \/ pc = "generic"
Decoded(c) ==
  <<c.comp_id_data, c.partner_id_data, c.nodes_start_idx_data, c.node_count_data,
    c.nodes, c.levee_data, c.levee_coords>>

\* C24: once the file has ended directly after the element table, the ocean
\* section, a complete land arc or the land section, no step of
\* _read_coverages() raises or changes the arcs decoded so far, and the
\* parser goes on until it has returned.
C24_EndOfFileTolerated ==
  /\ [](mode = "cov" /\ AtEndOfFile(cov, pcC) => ENABLED NextC)
  /\ [][(mode = "cov" /\ AtEndOfFile(cov, pcC)) =>
          /\ pcC' # "raised"
          /\ Decoded(cov') = Decoded(cov)
          /\ (AtEndOfFile(cov', pcC') \/ pcC' = "done")]_vars
\* The file ended after a complete land arc, with more land arcs declared,
\* and the arcs read before are in the datasets.
C24_Witness ==
  /\ mode = "cov" /\ pcC = "done"
  /\ ~cov.read_next_line /\ cov.current_line >= Len(cov.lines)
  /\ RowCount >= 2
  /\ cov.line # << >> /\ Len(cov.line[1]) = 2

\* The characters of a token before its first '!' ...
RECURSIVE UpToBang(_)
UpToBang(tok) ==
  IF Len(tok) = 0 \/ SubSeq(tok, 1, 1) = "!" THEN ""
  ELSE SubSeq(tok, 1, 1) \o UpToBang(SubSeq(tok, 2, Len(tok)))
\* ... and the tokens of a record that stand before its first '!'.
RECURSIVE DataTokens(_)
DataTokens(t) ==
  IF Len(t) = 0 THEN << >>
  ELSE IF UpToBang(Head(t)) = Head(t) THEN <<Head(t)>> \o DataTokens(Tail(t))
  ELSE IF UpToBang(Head(t)) = "" THEN << >>
  ELSE <<UpToBang(Head(t))>>
\* The data tokens are those of a levee pair record of the mesh.
PairRecordDecodes(d, pt_map) ==
  /\ Len(d) >= 5
  /\ IsInt(d[1]) /\ IsInt(d[2])
  /\ DictHas(pt_map, IntOf(d[1])) /\ DictHas(pt_map, IntOf(d[2]))
  /\ IsFloat(d[3]) /\ IsFloat(d[4]) /\ IsFloat(d[5])
  /\ Len(d) >= 8 => (IsFloat(d[6]) /\ IsFloat(d[7]) /\ IsFloat(d[8]))
\* The parser stands before the header of a levee pair whose records are in
\* the file.
BeforePair ==
  /\ mode = "cov" /\ pcC = "land" /\ cov.arcs_left > 0
  /\ cov.current_line < Len(cov.lines)
  /\ LET h == cov.lines[cov.current_line + 1]
     IN /\ Len(h) >= 2 /\ IsInt(h[1]) /\ IsInt(h[2])
        /\ IntOf(h[2]) % 10 \in {4, 5}
        /\ cov.current_line + 1 + IntOf(h[1]) <= Len(cov.lines)
PairCount == IntOf(cov.lines[cov.current_line + 1][1])
PairRecordAt(i) == cov.lines[cov.current_line + 1 + i]

\* C27: a levee pair whose records decode once cut at their first '!' is
\* read without raising; the row of each record holds pipe fields only if at
\* least 8 tokens stand before the '!', it is marked pipe-on exactly when it
\* has them and the pipe height is below 100.0, and the step adds as many
\* pipe display lines as it marks rows.
C27_CommentsAndPipes ==
  [][(BeforePair /\ \A i \in 1..PairCount :
                      PairRecordDecodes(DataTokens(PairRecordAt(i)), cov.pt_map)) =>
       /\ pcC' # "raised"
       /\ Len(cov'.levee_data) = Len(cov.levee_data) + Count(PairCount)
       /\ \A i \in 1..PairCount :
            LET d == DataTokens(PairRecordAt(i))
                r == cov'.levee_data[Len(cov.levee_data) + i]
            IN /\ r.pipe_on = 1 <=> (Len(d) >= 8 /\ FloatOf(d[6]) < 10 * 100)
               /\ r.pipe_on \in {0, 1}
               /\ IF Len(d) >= 8
                    THEN /\ r.pipe_z = FloatOf(d[6])
                         /\ r.pipe_coef = FloatOf(d[7])
                         /\ r.pipe_diameter = FloatOf(d[8])
                    ELSE r.pipe_z = 0 /\ r.pipe_coef = 0 /\ r.pipe_diameter = 0
       /\ Len(cov'.snap_pipes) - Len(cov.snap_pipes) =
            Cardinality({i \in 1..PairCount :
                           cov'.levee_data[Len(cov.levee_data) + i].pipe_on = 1})]_vars
\* A pair of two records was read: one with a pipe of the null height, one
\* with a lower pipe and a comment behind it; one display line was added.
C27_Witness ==
  /\ mode = "cov" /\ pcC = "done"
  /\ Len(cov.levee_data) = 2 /\ Len(cov.snap_pipes) = 1
  /\ \E i, j \in 1..2 :
       /\ cov.levee_data[i].pipe_on = 0 /\ cov.levee_data[i].pipe_z = PipeNull
       /\ cov.levee_data[j].pipe_on = 1
  /\ \E k \in 1..Len(cov.lines) : \E m \in 1..Len(cov.lines[k]) : cov.lines[k][m] = "!"

\* The rows of the levee table the nodestring rows from i on call for: the
\* nodes of a levee outflow arc, and the nodes of one side of a levee pair.
RECURSIVE LeveeRowsFrom(_)
LeveeRowsFrom(i) ==
  IF i > RowCount THEN 0
  ELSE IF RowType(i) = "LEVEE_OUTFLOW" THEN Nodestrings.node_count[i] + LeveeRowsFrom(i + 1)
  ELSE IF RowType(i) = "LEVEE" THEN Nodestrings.node_count[i] + LeveeRowsFrom(i + 2)
  ELSE LeveeRowsFrom(i + 1)

\* C28 (as stated): when _read_coverages() has returned, the four nodestring
\* arrays are equally long, the nodestrings lie in the node list one after
\* the other from its start to its end, every node id is one of 1..number of
\* mesh nodes, and the levee table has a row for every node of each levee
\* outflow arc and each levee pair.
C28_AsStated ==
  (mode = "cov" /\ pcC = "done") =>
    LET ns == Nodestrings
        n == Len(ns.comp_id)
        nodes == cov.mapped_data[1].nodes
    IN /\ Len(ns.partner_id) = n /\ Len(ns.nodes_start_idx) = n /\ Len(ns.node_count) = n
       /\ n > 0 => ns.nodes_start_idx[1] = 0
       /\ \A i \in 1..(n - 1) : ns.nodes_start_idx[i + 1] = ns.nodes_start_idx[i] + ns.node_count[i]
       /\ n > 0 => ns.nodes_start_idx[n] + ns.node_count[n] = Len(nodes)
       /\ \A k \in 1..Len(nodes) : nodes[k] \in 1..Len(cov.pt_map)
       /\ Len(cov.mapped_data[1].levees.rows) = LeveeRowsFrom(1)

\* C29 (as stated): a line without tokens where the number of arcs of the
\* ocean, the land or the generic section is expected makes the parser go on
\* to that section with no arc to read; it does not raise.
C29_AsStated ==
  [][(/\ mode = "cov"
      /\ cov.current_line < Len(cov.lines)
      /\ cov.lines[cov.current_line + 1] = << >>
      /\ \/ pcC = "start"
         \/ pcC = "ocean" /\ cov.arcs_left <= 0
         \/ pcC = "land" /\ cov.arcs_left <= 0 /\ cov.read_next_line) =>
       (pcC' # "raised" /\ pcC' # pcC /\ cov'.arcs_left = 0)]_vars

(* ----------------------- claims about ToolboxHistory ------------------- *)
\* C30 (as stated): after any add_item and delete_item calls the tree model
\* shows the runs of the history list, each once under the date item of its
\* date, and no date item is without children.
C30_AsStated ==
  mode = "history" =>
    /\ Len(ModelRuns(hist.model)) = Len(hist.history)
    /\ \A i \in 1..Len(hist.history) :
         \E r \in 1..Len(hist.model) :
           /\ hist.model[r].text = hist.history[i].date
           /\ \E d \in 1..Len(hist.model[r].children) :
                hist.model[r].children[d].data = hist.history[i].history_uuid
    /\ \A r \in 1..Len(hist.model) : Len(hist.model[r].children) > 0
====
